---- MODULE Spec2Model ----
(***************************************************************************)
(* npm-publish workflow: dependency-graph resolution and batched publish   *)
(* of the packages of a workspace (workspace-service.ts,                   *)
(* package-service.ts, workspace-publish-runner.ts, index.ts).             *)
(*                                                                         *)
(* A T_Package object is a record of the heap `packages`, addressed by its *)
(* name; the arrays of packages the code passes around are sequences of    *)
(* names.  A version "X.Y.Z" is <<X, Y, Z, -1>> and "X.Y.Z-dev.N" is       *)
(* <<X, Y, Z, N>>.  A dependency specifier is a record: "workspace:*" is   *)
(* WorkspaceStar, "^1.0.0" is CaretRange, and the exact version v written  *)
(* by the dependency rewrite is Exact(v).                                  *)
(***************************************************************************)
EXTENDS Integers, Sequences, FiniteSets, TLC

\* The packages of the workspace, in the order readdir lists their folders.
PkgNames == <<"core", "utils", "app">>

Names == {PkgNames[i] : i \in 1..Len(PkgNames)}

\* Bound: dependency entries over all T_Package.dependencies lists (graph inputs).
MaxEdges == 3

NoPre == -1

Version000 == <<0, 0, 0, NoPre>>

\* A version every previously published package of the model carries.
Version123 == <<1, 2, 3, NoPre>>

WorkspaceStar == [proto |-> "workspace:", op |-> "*", ver |-> Version000]

CaretRange == [proto |-> "", op |-> "^", ver |-> <<1, 0, 0, NoPre>>]

Exact(v) == [proto |-> "", op |-> "", ver |-> v]

\* version.startsWith("workspace:") (loadPackage), val.includes("workspace:")
\* (publishBatches)
IsWorkspaceSpecifier(s) == s.proto = "workspace:"

DepTypes == <<"dependencies", "devDependencies", "peerDependencies">>

EmptyDeps == [n \in {} |-> WorkspaceStar]

VARIABLES
    packages,        \* heap of T_Package objects: name -> record
    allPkgs,         \* runner: allPkgs
    changedPkgs,     \* runner: changedPkgs
    expandedPkgs,    \* runner: expandedPkgs
    expandedAgain,   \* expandDependents applied to its own result
    publishPkgs,     \* runner: publishPkgs
    orderedBatches,  \* runner: orderedBatches (names per batch)
    error,           \* message of the error that reached main's catch, or ""
    pc,              \* position of the run
    repo,            \* package.json of each folder as checked out
    manifests,       \* package.json of each folder on disk
    registry,        \* registry document of each name: exists, dist-tags.latest
    registryLog,     \* publishes the registry accepted during the run, in order
    inputs,          \* T_WorkflowInputs
    branch,          \* GitHubGateway.getCurrentBranch()
    run,             \* which run of the workflow on this branch this is: 1, 2, ...
    npmPackages,     \* runner: npmPackages
    published,       \* publishBatches: published
    publishedVersions, \* publishBatches: publishedVersions
    fetchedVersions, \* publishBatches: fetchedVersions
    lookups,         \* registry lookups publishBatches issued: name, batch (0: pre-fetch)
    batchIndex,      \* publishBatches: i + 1
    task,            \* per package, how far its async step of batch.map has got
    output,          \* console lines that name published packages, in order
    artifacts,       \* per package: what bun pm pack builds, what the registry serves
    check,           \* checkChanges: per package, how far its async callback has got
    tmpDirs          \* directories that exist under os.tmpdir(): <<package, prefix>>

graphVars == <<packages, allPkgs, changedPkgs, expandedPkgs, expandedAgain,
               publishPkgs, orderedBatches, error, pc>>

envVars == <<repo, manifests, registry, registryLog, inputs, branch, run>>

publishVars == <<npmPackages, published, publishedVersions, fetchedVersions, lookups,
                 batchIndex, task, output>>

detectVars == <<artifacts, check, tmpDirs>>

vars == <<graphVars, envVars, publishVars, detectVars>>

----------------------------------------------------------------------------
(* Sequence helpers *)

Range(s) == {s[i] : i \in 1..Len(s)}

Contains(s, x) == \E i \in 1..Len(s) : s[i] = x

RECURSIVE Concat(_)
Concat(ss) ==
    IF ss = <<>> THEN <<>> ELSE Head(ss) \o Concat(Tail(ss))

\* The members of the set S as a sequence, in workspace (folder) order.
InOrder(S) == SelectSeq(PkgNames, LAMBDA n : n \in S)

NoDuplicates(s) == \A i, j \in 1..Len(s) : s[i] = s[j] => i = j

----------------------------------------------------------------------------
(* workspace-service.ts: expandDependents *)

\* dependedBy.get(name) || []: the packages of allPkgs with a workspace
\* dependency on name, in allPkgs order (one entry per dependency entry).
DependedByNoTypeCheck(store, all, name) ==
    SelectSeq(all, LAMBDA p :
        \E i \in 1..Len(store[p].dependencies) :
            store[p].dependencies[i].name = name)

DependedBy(store, all, name) ==
    SelectSeq(all, LAMBDA p :
        \E i \in 1..Len(store[p].dependencies) :
            /\ store[p].dependencies[i].name = name
            /\ store[p].dependencies[i].type = "workspace")

\* new Set<T_Package>(changedPkgs): insertion order, duplicates dropped.
RECURSIVE SetOf(_, _)
SetOf(s, acc) ==
    IF s = <<>> THEN acc
    ELSE SetOf(Tail(s), IF Contains(acc, Head(s)) THEN acc ELSE Append(acc, Head(s)))

\* for (const dependent of dependents) if (!expanded.has(dependent)) ...
AddDependentsNoEnqueue(dependents, expanded, queue) ==
    [expanded |-> SetOf(expanded \o dependents, <<>>), queue |-> queue]

RECURSIVE AddDependentsEnqueueTwice(_, _, _)
AddDependentsEnqueueTwice(dependents, expanded, queue) ==
    IF dependents = <<>> THEN [expanded |-> expanded, queue |-> queue]
    ELSE IF ~Contains(expanded, Head(dependents))
         THEN AddDependentsEnqueueTwice(Tail(dependents),
                            Append(expanded, Head(dependents)),
                            queue \o <<Head(dependents), Head(dependents)>>)
         ELSE AddDependentsEnqueueTwice(Tail(dependents), expanded, queue)

RECURSIVE AddDependents(_, _, _)
AddDependents(dependents, expanded, queue) ==
    IF dependents = <<>> THEN [expanded |-> expanded, queue |-> queue]
    ELSE IF ~Contains(expanded, Head(dependents))
         THEN AddDependents(Tail(dependents),
                            Append(expanded, Head(dependents)),
                            Append(queue, Head(dependents)))
         ELSE AddDependents(Tail(dependents), expanded, queue)

\* while (queue.length > 0) { const current = queue.shift()!; ... }
RECURSIVE ExpandLoop(_, _, _, _)
ExpandLoop(store, all, expanded, queue) ==
    IF queue = <<>> THEN expanded
    ELSE LET current == Head(queue)
             r == AddDependents(DependedBy(store, all, current), expanded, Tail(queue))
         IN  ExpandLoop(store, all, r.expanded, r.queue)

expandDependents(store, all, changed) ==
    ExpandLoop(store, all, SetOf(changed, <<>>), changed)

----------------------------------------------------------------------------
(* workspace-service.ts: resolveExecutionBatches *)

PkgNameSet(pkgs) == Range(pkgs)

\* if (dep.type === "workspace" && pkgNames.has(dep.name))
CountsAsEdgeAnyTarget(dep, pkgNames) ==
    dep.type = "workspace"

CountsAsEdge(dep, pkgNames) ==
    dep.type = "workspace" /\ dep.name \in pkgNames

\* workspaceDeps of one package
WorkspaceDeps(store, pkgs, p) ==
    LET kept == SelectSeq(store[p].dependencies,
                          LAMBDA d : CountsAsEdge(d, PkgNameSet(pkgs)))
    IN  [i \in 1..Len(kept) |-> kept[i].name]

\* dependedBy.get(name): one entry per edge, in pkgs order
DependedByIn(store, pkgs, name) ==
    Concat([i \in 1..Len(pkgs) |->
        LET hits == SelectSeq(WorkspaceDeps(store, pkgs, pkgs[i]), LAMBDA d : d = name)
        IN  [k \in 1..Len(hits) |-> pkgs[i]]])

\* pkgs.forEach((pkg) => inDegree.set(pkg.name, dependsOn.get(pkg.name)!.length))
InitialInDegreeAtMostOne(store, pkgs) ==
    [n \in PkgNameSet(pkgs) |->
        IF WorkspaceDeps(store, pkgs, n) = <<>> THEN 0 ELSE 1]

InitialInDegree(store, pkgs) ==
    [n \in PkgNameSet(pkgs) |-> Len(WorkspaceDeps(store, pkgs, n))]

\* if (inDegree.get(pkg.name) === 0) { batch.push(pkg); inDegree.set(pkg.name, -1) }
ReadyBatchAtMostOne(pkgs, inDegree) ==
    SelectSeq(pkgs, LAMBDA p : inDegree[p] <= 1 /\ inDegree[p] >= 0)

ReadyBatchOnlyFirst(pkgs, inDegree) ==
    LET ready == SelectSeq(pkgs, LAMBDA p : inDegree[p] = 0)
    IN  IF ready = <<>> THEN <<>> ELSE <<Head(ready)>>

ReadyBatch(pkgs, inDegree) ==
    SelectSeq(pkgs, LAMBDA p : inDegree[p] = 0)

MarkTakenNot(inDegree, batch) == inDegree

MarkTaken(inDegree, batch) ==
    [n \in DOMAIN inDegree |-> IF Contains(batch, n) THEN -1 ELSE inDegree[n]]

\* if (inDegree.get(depName)! > 0) inDegree.set(depName, inDegree.get(depName)! - 1)
RECURSIVE Decrement(_, _)
Decrement(inDegree, dependents) ==
    IF dependents = <<>> THEN inDegree
    ELSE LET d == Head(dependents)
         IN  Decrement(IF inDegree[d] > 0
                       THEN [inDegree EXCEPT ![d] = @ - 1]
                       ELSE inDegree,
                       Tail(dependents))

\* What a call leaves its caller with: a returned value, or a thrown error.
Returned(v) == [thrown |-> FALSE, error |-> "", value |-> v]

Thrown(msg) == [thrown |-> TRUE, error |-> msg, value |-> <<>>]

\* if (batch.length === 0) throw new Error("Circular dependency detected")
OnNoReadyPackageReturnPrefix(batches) == Returned(batches)

OnNoReadyPackage(batches) == Thrown("Circular dependency detected")

\* while (processed < pkgs.length) { ... }
RECURSIVE KahnLoop(_, _, _, _, _)
KahnLoop(store, pkgs, inDegree, batches, processed) ==
    IF processed >= Len(pkgs) THEN Returned(batches)
    ELSE LET batch == ReadyBatch(pkgs, inDegree)
         IN  IF batch = <<>> THEN OnNoReadyPackage(batches)
             ELSE KahnLoop(store, pkgs,
                      Decrement(MarkTaken(inDegree, batch),
                                Concat([i \in 1..Len(batch) |->
                                           DependedByIn(store, pkgs, batch[i])])),
                      Append(batches, batch),
                      processed + Len(batch))

resolveExecutionBatches(store, pkgs) ==
    KahnLoop(store, pkgs, InitialInDegree(store, pkgs), <<>>, 0)

----------------------------------------------------------------------------
(* package-service.ts: loadPackage; npm-gateway.ts: fetchPackageInfo *)

RejectedProtocols == {"file:", "link:", "git:", "http:", "https:"}

\* what follows an optional scheme in a specifier: op "^" and the like with a
\* version (a semver range), op "" with a version (an exact version), op "*",
\* op "latest" (one of the dist-tag keywords), op "word" (any other text)
SemverKeywords == {"latest", "stable", "beta", "alpha", "next", "canary", "rc"}

RangeOperators == {"", "^", "~", ">=", "<=", ">", "<", "="}

isValidVersion(version) ==
    IF version.proto \in RejectedProtocols THEN FALSE
    ELSE IF version.proto = "workspace:" THEN TRUE
    ELSE IF version.proto # "" THEN FALSE
    ELSE \/ version.op \in SemverKeywords
         \/ version.op = "*"
         \/ version.op \in RangeOperators

\* registry[name]: exists = the registry answers 200 for the name; latest =
\* dist-tags.latest, Version000 when the document has no such tag; tarball =
\* versions[latest].dist.tarball is set; flaky = the request that the
\* pre-fetch of publishBatches sends for the name fails.
fetchPackageInfo(reg, packageName) ==
    IF packageName = "" THEN Thrown("Package name is required and must be a non-empty string")
    ELSE IF packageName \notin DOMAIN reg \/ ~reg[packageName].exists
         THEN Thrown("Failed to fetch package info")
         ELSE Returned([version |-> reg[packageName].latest,
                        tarballUrl |-> reg[packageName].tarball])

\* Object.keys({ ...dependencies, ...devDependencies, ...peerDependencies })
MergedKeys(json) ==
    InOrder(DOMAIN json.dependencies)
        \o InOrder(DOMAIN json.devDependencies \ DOMAIN json.dependencies)
        \o InOrder(DOMAIN json.peerDependencies
                      \ (DOMAIN json.dependencies \cup DOMAIN json.devDependencies))

\* allDependencies[name]: a later spread overrides an earlier one
MergedSpecifier(json, name) ==
    IF name \in DOMAIN json.peerDependencies THEN json.peerDependencies[name]
    ELSE IF name \in DOMAIN json.devDependencies THEN json.devDependencies[name]
    ELSE json.dependencies[name]

PackageDependenciesAllNpm(json) ==
    LET keys == MergedKeys(json)
    IN  [i \in 1..Len(keys) |->
            [name |-> keys[i], type |-> "npm",
             version |-> MergedSpecifier(json, keys[i])]]

PackageDependencies(json) ==
    LET keys == MergedKeys(json)
    IN  [i \in 1..Len(keys) |->
            [name |-> keys[i],
             type |-> IF IsWorkspaceSpecifier(MergedSpecifier(json, keys[i]))
                      THEN "workspace" ELSE "npm",
             version |-> MergedSpecifier(json, keys[i])]]

loadPackage(json, reg, inp) ==
    IF json.name = "" THEN Thrown("Package name is required")
    ELSE IF \E i \in 1..Len(MergedKeys(json)) :
                ~isValidVersion(MergedSpecifier(json, MergedKeys(json)[i]))
         THEN Thrown("Invalid semver version")
         ELSE LET info == fetchPackageInfo(reg, json.name)
                  access == IF json.private THEN "restricted" ELSE "public"
              IN  IF info.thrown THEN info
                  ELSE IF access # inp.access
                       THEN Thrown("Package access mismatch")
                       ELSE Returned([name |-> json.name,
                                      version |-> info.value.version,
                                      tarballUrl |-> info.value.tarballUrl,
                                      access |-> access,
                                      hasNpmTag |-> json.npm,
                                      dependencies |-> PackageDependencies(json),
                                      json |-> json])

DEFAULT_WORKFLOW_INPUTS ==
    [packagePath |-> "core", bumpLevel |-> "patch", access |-> "public",
     forcePublish |-> FALSE, route |-> "turborepo-workspace"]

----------------------------------------------------------------------------
(* Inputs of the graph functions: T_Package objects whose dependencies list *)
(* is drawn freely, at most MaxEdges entries over the whole workspace.      *)

EdgeKinds == {"none", "workspace", "npm"}

Graphs ==
    {g \in [Names \X Names -> EdgeKinds] :
        Cardinality({e \in Names \X Names : g[e] # "none"}) <= MaxEdges}

\* The package.json that declares the entries of g for package n, all of them
\* in "dependencies".
ManifestOf(g, n, npm) ==
    [name |-> n, npm |-> npm, private |-> FALSE, version |-> Version000,
     dependencies |->
         [t \in {t \in Names : g[<<n, t>>] # "none"} |->
             IF g[<<n, t>>] = "workspace" THEN WorkspaceStar ELSE CaretRange],
     devDependencies |-> EmptyDeps,
     peerDependencies |-> EmptyDeps]

AllPublished ==
    [n \in Names |-> [exists |-> TRUE, latest |-> Version123, tarball |-> TRUE,
                      flaky |-> FALSE]]

PackagesOf(g, notNpm) ==
    [n \in Names |->
        loadPackage(ManifestOf(g, n, n \notin notNpm), AllPublished,
                    DEFAULT_WORKFLOW_INPUTS).value]

\* At most one package of the workspace lacks the npm flag.
NotNpmChoices == {{}} \cup {{n} : n \in Names}

NoVersions == [n \in {} |-> Version000]

IdleTask == [st |-> "idle", at |-> "", updateVersion |-> Version000]

\* checkChanges has not been called and nothing is packed yet.
IdleCheck == [at |-> "idle", outcome |-> "", result |-> "none"]

DetectIdle ==
    /\ artifacts = <<>>
    /\ check = [n \in Names |-> IdleCheck]
    /\ tmpDirs = {}

\* Nothing of publishBatches has run yet.
PublishIdle ==
    /\ npmPackages = <<>>
    /\ published = <<>>
    /\ publishedVersions = NoVersions
    /\ fetchedVersions = NoVersions
    /\ lookups = <<>>
    /\ batchIndex = 1
    /\ task = [n \in Names |-> IdleTask]
    /\ output = <<>>
    /\ registryLog = <<>>

InitGraph(g, notNpm) ==
    /\ packages = PackagesOf(g, notNpm)
    /\ allPkgs = PkgNames
    /\ expandedPkgs = <<>>
    /\ expandedAgain = <<>>
    /\ orderedBatches = <<>>
    /\ error = ""
    /\ repo = [n \in Names |-> ManifestOf(g, n, n \notin notNpm)]
    /\ manifests = repo
    /\ registry = AllPublished
    /\ inputs = DEFAULT_WORKFLOW_INPUTS
    /\ branch = "main"
    /\ run = 1
    /\ PublishIdle
    /\ DetectIdle

InitSchedule ==
    \E g \in Graphs : \E S \in SUBSET Names :
        /\ InitGraph(g, {})
        /\ changedPkgs = <<>>
        /\ publishPkgs = InOrder(S)
        /\ pc = "schedule"

InitExpand ==
    \E g \in Graphs : \E S \in SUBSET Names : \E notNpm \in NotNpmChoices :
        /\ InitGraph(g, notNpm)
        /\ changedPkgs = InOrder(S)
        /\ publishPkgs = <<>>
        /\ pc = "expand"

\* runner step 7 without the scheduler: everything in one batch
ResolveExecutionOrderOneBatch ==
    /\ pc = "schedule"
    /\ pc' = "publish"
    /\ orderedBatches' = <<publishPkgs>>
    /\ UNCHANGED <<packages, allPkgs, changedPkgs, expandedPkgs, expandedAgain,
                   publishPkgs, error>>
    /\ UNCHANGED <<envVars, publishVars>>
    /\ UNCHANGED detectVars

\* runner step 7: const orderedBatches = WorkspaceService.resolveExecutionBatches(...)
\* A throw reaches main's catch: console.error, process.exit(1).
ResolveExecutionOrder ==
    /\ pc = "schedule"
    /\ LET r == resolveExecutionBatches(packages, publishPkgs)
       IN  IF r.thrown
           THEN /\ pc' = "exit1"
                /\ error' = r.error
                /\ UNCHANGED orderedBatches
           ELSE /\ pc' = "publish"
                /\ orderedBatches' = r.value
                /\ UNCHANGED error
    /\ UNCHANGED <<packages, allPkgs, changedPkgs, expandedPkgs, expandedAgain, publishPkgs>>
    /\ UNCHANGED <<envVars, publishVars>>
    /\ UNCHANGED detectVars

\* expandDependents({ allPkgs, changedPkgs })
ExpandOnce ==
    /\ pc = "expand"
    /\ expandedPkgs' = expandDependents(packages, allPkgs, changedPkgs)
    /\ pc' = "expanded"
    /\ UNCHANGED <<packages, allPkgs, changedPkgs, expandedAgain, publishPkgs,
                   orderedBatches, error, envVars, publishVars>>
    /\ UNCHANGED detectVars

\* expandDependents({ allPkgs, changedPkgs: expandedPkgs })
ExpandTwice ==
    /\ pc = "expanded"
    /\ expandedAgain' = expandDependents(packages, allPkgs, expandedPkgs)
    /\ pc' = "expandedTwice"
    /\ UNCHANGED <<packages, allPkgs, changedPkgs, expandedPkgs, publishPkgs,
                   orderedBatches, error, envVars, publishVars>>
    /\ UNCHANGED detectVars

NextSchedule == ResolveExecutionOrder

NextExpand == ExpandOnce \/ ExpandTwice

SpecSchedule == InitSchedule /\ [][NextSchedule]_vars

SpecExpand == InitExpand /\ [][NextExpand]_vars

----------------------------------------------------------------------------
(* package-service.ts: calcUpdateVersion; github-gateway: getCurrentTag *)

\* semver.inc that leaves the lower components as they are
SemverIncKeepsLower(v, release) ==
    CASE release = "major" -> <<v[1] + 1, v[2], v[3], NoPre>>
      [] release = "minor" -> <<v[1], v[2] + 1, v[3], NoPre>>
      [] release = "patch" -> <<v[1], v[2], v[3] + 1, NoPre>>
      [] release = "prerelease" ->
            IF v[4] = NoPre
            THEN <<v[1], v[2], v[3] + 1, 0>> ELSE <<v[1], v[2], v[3], v[4] + 1>>

\* semver.inc(version, release, "dev") of the semver library
SemverInc(v, release) ==
    CASE release = "major" ->
            IF v[2] # 0 \/ v[3] # 0 \/ v[4] = NoPre
            THEN <<v[1] + 1, 0, 0, NoPre>> ELSE <<v[1], 0, 0, NoPre>>
      [] release = "minor" ->
            IF v[3] # 0 \/ v[4] = NoPre
            THEN <<v[1], v[2] + 1, 0, NoPre>> ELSE <<v[1], v[2], 0, NoPre>>
      [] release = "patch" ->
            IF v[4] = NoPre
            THEN <<v[1], v[2], v[3] + 1, NoPre>> ELSE <<v[1], v[2], v[3], NoPre>>
      [] release = "prerelease" ->
            IF v[4] = NoPre
            THEN <<v[1], v[2], v[3] + 1, 0>> ELSE <<v[1], v[2], v[3], v[4] + 1>>

\* current versions that are no version: undefined, "", "null", " "
AbsentVersion == <<"undefined">>

EmptyVersion == <<>>

NullVersion == <<"null">>

BlankVersion == <<" ">>

\* if (!currentVersion || currentVersion === "null" || currentVersion.trim() === "")
DefaultedVersion(currentVersion) ==
    IF currentVersion \in {AbsentVersion, EmptyVersion, NullVersion, BlankVersion}
    THEN Version000 ELSE currentVersion

\* on the dev branch, without the test for a version that is a dev version
calcUpdateVersionNoDevTest(currentVersion, bumpLevel, br) ==
    LET cv == DefaultedVersion(currentVersion)
    IN  IF br = "main" THEN Returned(SemverInc(cv, bumpLevel))
        ELSE IF br = "dev"
             THEN Returned(SemverInc(SemverInc(cv, "patch"), "prerelease"))
             ELSE Thrown("Branch is not main or dev")

calcUpdateVersion(currentVersion, bumpLevel, br) ==
    LET cv == DefaultedVersion(currentVersion)
    IN  IF br = "main" THEN Returned(SemverInc(cv, bumpLevel))
        ELSE IF br = "dev"
             THEN IF cv[4] # NoPre
                  THEN Returned(SemverInc(cv, "prerelease"))
                  ELSE Returned(SemverInc(SemverInc(cv, "patch"), "prerelease"))
             ELSE Thrown("Branch is not main or dev")

getCurrentTag(br) == IF br = "dev" THEN "dev" ELSE "latest"

----------------------------------------------------------------------------
(* workspace-service.ts: publishBatches *)

\* the (type, name) entries of a package.json in the order the loops visit them
EntriesWithoutPeer(json) ==
    Concat([k \in 1..2 |->
        LET names == InOrder(DOMAIN json[DepTypes[k]])
        IN  [j \in 1..Len(names) |-> <<DepTypes[k], names[j]>>]])

Entries(json) ==
    Concat([k \in 1..Len(DepTypes) |->
        LET names == InOrder(DOMAIN json[DepTypes[k]])
        IN  [j \in 1..Len(names) |-> <<DepTypes[k], names[j]>>]])

\* Resolve workspace deps with the registry's version taking precedence
RECURSIVE RewriteEntriesRegistryFirst(_, _, _, _)
RewriteEntriesRegistryFirst(json, entries, pubVersions, fetVersions) ==
    IF entries = <<>> THEN [json |-> json, need |-> <<>>]
    ELSE LET t == Head(entries)[1]
             name == Head(entries)[2]
         IN  IF ~IsWorkspaceSpecifier(json[t][name])
             THEN RewriteEntriesRegistryFirst(json, Tail(entries), pubVersions, fetVersions)
             ELSE IF name \in DOMAIN fetVersions
             THEN RewriteEntriesRegistryFirst(
                     [json EXCEPT ![t][name] = Exact(fetVersions[name])],
                     Tail(entries), pubVersions, fetVersions)
             ELSE IF name \in DOMAIN pubVersions
             THEN RewriteEntriesRegistryFirst(
                     [json EXCEPT ![t][name] = Exact(pubVersions[name])],
                     Tail(entries), pubVersions, fetVersions)
             ELSE [json |-> json, need |-> Head(entries)]

\* Resolve workspace deps, up to the first entry that needs the fallback fetch
RECURSIVE RewriteEntries(_, _, _, _)
RewriteEntries(json, entries, pubVersions, fetVersions) ==
    IF entries = <<>> THEN [json |-> json, need |-> <<>>]
    ELSE LET t == Head(entries)[1]
             name == Head(entries)[2]
         IN  IF ~IsWorkspaceSpecifier(json[t][name])
             THEN RewriteEntries(json, Tail(entries), pubVersions, fetVersions)
             ELSE IF name \in DOMAIN pubVersions
             THEN RewriteEntries([json EXCEPT ![t][name] = Exact(pubVersions[name])],
                                 Tail(entries), pubVersions, fetVersions)
             ELSE IF name \in DOMAIN fetVersions
             THEN RewriteEntries([json EXCEPT ![t][name] = Exact(fetVersions[name])],
                                 Tail(entries), pubVersions, fetVersions)
             ELSE [json |-> json, need |-> Head(entries)]

\* Pre-fetch: the names of workspace specifiers that are packages of allPkgs
WorkspaceDepsToFetch ==
    {name \in Range(allPkgs) :
        \E p \in Range(Concat(orderedBatches)) : \E k \in 1..Len(DepTypes) :
            /\ name \in DOMAIN packages[p].json[DepTypes[k]]
            /\ name \notin DOMAIN publishedVersions
            /\ IsWorkspaceSpecifier(packages[p].json[DepTypes[k]][name])}

\* if (info.version && info.version !== "0.0.0")
UsableVersionAcceptsZero(reg, name) ==
    ~fetchPackageInfo(reg, name).thrown

UsableVersion(reg, name) ==
    LET info == fetchPackageInfo(reg, name)
    IN  ~info.thrown /\ info.value.version # Version000

\* catch (e) { console.error(...); throw e; }
RethrowsFailureNot == FALSE

RethrowsFailure == TRUE

FailedTask(at) == [st |-> "failed", at |-> at, updateVersion |-> Version000]

\* the part of one package's async step that runs before its first I/O
TaskBegin(p) ==
    LET c == calcUpdateVersion(packages[p].version, inputs.bumpLevel, branch)
    IN  IF c.thrown
        THEN [task |-> FailedTask("version"), json |-> packages[p].json, error |-> c.error]
        ELSE LET json1 == [packages[p].json EXCEPT !.version = c.value]
                 r == RewriteEntries(json1, Entries(json1), publishedVersions,
                                     fetchedVersions)
             IN  [task |-> [st |-> IF r.need = <<>> THEN "writing" ELSE "fetching",
                            at |-> "", updateVersion |-> c.value],
                  json |-> r.json, error |-> ""]

\* a task's promise is fulfilled (with a record, or with undefined)
TaskFulfilled(t) == t.st = "done" \/ (t.st = "failed" /\ ~RethrowsFailure)

\* await Promise.all(batch.map(...)) resumes
BatchSettledAny(batch) == \E k \in 1..Len(batch) : TaskFulfilled(task[batch[k]])

BatchSettled(batch) == \A k \in 1..Len(batch) : TaskFulfilled(task[batch[k]])

CurrentBatch == orderedBatches[batchIndex]

InCurrentBatch(p) ==
    /\ pc = "awaitBatch"
    /\ Contains(CurrentBatch, p)

\* A step of p throws: the catch logs and rethrows, Promise.all rejects, run
\* and main reject in turn, main's catch calls process.exit(1).
FailRun(p, at, msg) ==
    /\ task' = [task EXCEPT ![p] = FailedTask(at)]
    /\ IF RethrowsFailure
       THEN pc' = "exit1" /\ error' = msg
       ELSE UNCHANGED <<pc, error>>
    /\ UNCHANGED detectVars

----------------------------------------------------------------------------
(* workspace-publish-runner.ts: run; index.ts: main *)

\* Step 1: WorkspaceService.loadAllPackages
LoadAllPackages ==
    /\ pc = "load"
    /\ inputs.route = "turborepo-workspace"
    /\ LET loaded == [n \in Names |-> loadPackage(manifests[n], registry, inputs)]
           bad == SelectSeq(PkgNames, LAMBDA n : loaded[n].thrown)
       IN  IF bad # <<>>
           THEN /\ pc' = "exit1"
                /\ error' = loaded[Head(bad)].error
                /\ UNCHANGED <<packages, allPkgs>>
           ELSE /\ packages' = [n \in Names |-> loaded[n].value]
                /\ allPkgs' = PkgNames
                /\ pc' = "filter"
                /\ UNCHANGED error
    /\ UNCHANGED <<changedPkgs, expandedPkgs, expandedAgain, publishPkgs, orderedBatches>>
    /\ UNCHANGED <<envVars, publishVars>>
    /\ UNCHANGED detectVars

NpmPublishable == SelectSeq(allPkgs, LAMBDA n : packages[n].hasNpmTag)

\* Steps 2 and 3: filter npm-publishable packages, build them
FilterAndBuild ==
    /\ pc = "filter"
    /\ npmPackages' = NpmPublishable
    /\ pc' = IF NpmPublishable = <<>> THEN "exit0" ELSE "detect"
    /\ UNCHANGED <<packages, allPkgs, changedPkgs, expandedPkgs, expandedAgain,
                   publishPkgs, orderedBatches, error>>
    /\ UNCHANGED <<envVars, published, publishedVersions, fetchedVersions, lookups,
                   batchIndex, task, output>>
    /\ UNCHANGED detectVars

\* buildPackages: what turbo run --filter="<name>..." selects for one name,
\* the package and the workspace packages its package.json depends on
TurboDependencies(n) ==
    {d \in Names : \E k \in 1..2 :
        /\ d \in DOMAIN manifests[n][DepTypes[k]]
        /\ IsWorkspaceSpecifier(manifests[n][DepTypes[k]][d])}

RECURSIVE TurboFilter(_, _)
TurboFilter(S, k) ==
    IF k = 0 THEN S
    ELSE TurboFilter(S \cup UNION {TurboDependencies(n) : n \in S}, k - 1)

\* the packages the build command of Step 3 runs in
BuildSelection(pkgs) == TurboFilter(Range(pkgs), Cardinality(Names))

\* Step 3 with a failing build command
BuildFails ==
    /\ pc = "filter"
    /\ NpmPublishable # <<>>
    /\ npmPackages' = NpmPublishable
    /\ pc' = "exit1"
    /\ error' = "Command failed"
    /\ UNCHANGED <<packages, allPkgs, changedPkgs, expandedPkgs, expandedAgain,
                   publishPkgs, orderedBatches>>
    /\ UNCHANGED <<envVars, published, publishedVersions, fetchedVersions, lookups,
                   batchIndex, task, output>>
    /\ UNCHANGED detectVars

\* checkChanges: a package without a published version is always changed
FirstPublishVersionOnly(n) == packages[n].version = Version000

FirstPublish(n) == packages[n].version = Version000 \/ ~packages[n].tarballUrl

\* Step 4: the changed packages (all of them under force-publish, on timeout
\* and on failure of the detection as a whole)
CheckForChangesNoExit ==
    /\ pc = "detect"
    /\ \E S \in SUBSET Range(npmPackages) :
          /\ inputs.forcePublish => S = Range(npmPackages)
          /\ \A n \in Range(npmPackages) : FirstPublish(n) => n \in S
          /\ changedPkgs' = SelectSeq(npmPackages, LAMBDA n : n \in S)
          /\ pc' = "expand"
    /\ UNCHANGED <<packages, allPkgs, expandedPkgs, expandedAgain, publishPkgs,
                   orderedBatches, error>>
    /\ UNCHANGED <<envVars, publishVars>>
    /\ UNCHANGED detectVars

CheckForChanges ==
    /\ pc = "detect"
    /\ \E S \in SUBSET Range(npmPackages) :
          /\ inputs.forcePublish => S = Range(npmPackages)
          /\ \A n \in Range(npmPackages) : FirstPublish(n) => n \in S
          /\ changedPkgs' = SelectSeq(npmPackages, LAMBDA n : n \in S)
          /\ pc' = IF S = {} THEN "exit0" ELSE "expand"
    /\ UNCHANGED <<packages, allPkgs, expandedPkgs, expandedAgain, publishPkgs,
                   orderedBatches, error>>
    /\ UNCHANGED <<envVars, publishVars>>
    /\ UNCHANGED detectVars

\* Steps 5 and 6 without the filter of line 177
ExpandDependentPackagesNoFilter ==
    /\ pc = "expand"
    /\ LET expanded == expandDependents(packages, allPkgs, changedPkgs)
       IN  /\ expandedPkgs' = expanded
           /\ publishPkgs' = expanded
           /\ pc' = IF expanded = <<>> THEN "exit0" ELSE "schedule"
    /\ UNCHANGED <<packages, allPkgs, changedPkgs, expandedAgain, orderedBatches, error>>
    /\ UNCHANGED <<envVars, publishVars>>
    /\ UNCHANGED detectVars

\* Steps 5 and 6: expand dependents, keep the npm-publishable ones
ExpandDependentPackages ==
    /\ pc = "expand"
    /\ LET expanded == expandDependents(packages, allPkgs, changedPkgs)
           publish == SelectSeq(expanded, LAMBDA n : Contains(npmPackages, n))
       IN  /\ expandedPkgs' = expanded
           /\ publishPkgs' = publish
           /\ pc' = IF publish = <<>> THEN "exit0" ELSE "schedule"
    /\ UNCHANGED <<packages, allPkgs, changedPkgs, expandedAgain, orderedBatches, error>>
    /\ UNCHANGED <<envVars, publishVars>>
    /\ UNCHANGED detectVars

\* the first workspace specifier of json that cases 1 and 2 leave unresolved
NeedOf(json) ==
    RewriteEntries(json, Entries(json), publishedVersions, fetchedVersions).need

\* publishBatches, up to the first batch: pre-fetch of dependency versions.
\* A fetch that rejects is caught and leaves no entry.
PrefetchVersions ==
    /\ pc = "publish"
    /\ fetchedVersions' =
          [name \in {n \in WorkspaceDepsToFetch :
                        ~registry[n].flaky /\ UsableVersion(registry, n)} |->
              fetchPackageInfo(registry, name).value.version]
    /\ lookups' = lookups \o [k \in 1..Len(InOrder(WorkspaceDepsToFetch)) |->
                                [name |-> InOrder(WorkspaceDepsToFetch)[k], batch |-> 0]]
    /\ batchIndex' = 1
    /\ pc' = "batch"
    /\ UNCHANGED <<packages, allPkgs, changedPkgs, expandedPkgs, expandedAgain,
                   publishPkgs, orderedBatches, error>>
    /\ UNCHANGED <<envVars, npmPackages, published, publishedVersions, task, output>>
    /\ UNCHANGED detectVars

\* for (let i ...): batch.map starts every package's step; each runs up to
\* its first I/O before anything else can run
StartBatch ==
    /\ pc = "batch"
    /\ batchIndex <= Len(orderedBatches)
    /\ LET begun == [n \in Range(CurrentBatch) |-> TaskBegin(n)]
           bad == SelectSeq(CurrentBatch, LAMBDA n : begun[n].task.st = "failed")
       IN  /\ task' = [n \in Names |->
                          IF n \in Range(CurrentBatch) THEN begun[n].task ELSE task[n]]
           /\ packages' = [n \in Names |->
                          IF n \in Range(CurrentBatch)
                          THEN [packages[n] EXCEPT !.json = begun[n].json]
                          ELSE packages[n]]
           /\ IF bad # <<>> /\ RethrowsFailure
              THEN pc' = "exit1" /\ error' = begun[Head(bad)].error
              ELSE pc' = "awaitBatch" /\ UNCHANGED error
           /\ LET fetching == SelectSeq(CurrentBatch,
                                        LAMBDA n : begun[n].task.st = "fetching")
              IN  lookups' = lookups \o
                      [k \in 1..Len(fetching) |->
                          [name |-> NeedOf(begun[fetching[k]].json)[2],
                           batch |-> batchIndex]]
    /\ UNCHANGED <<allPkgs, changedPkgs, expandedPkgs, expandedAgain, publishPkgs,
                   orderedBatches>>
    /\ UNCHANGED <<envVars, npmPackages, published, publishedVersions,
                   fetchedVersions, batchIndex, output>>
    /\ UNCHANGED detectVars

\* 3. Fallback: the fetch for the first unresolved workspace specifier returns
FallbackFetchDone(p) ==
    /\ InCurrentBatch(p)
    /\ task[p].st = "fetching"
    /\ LET json == packages[p].json
           need == NeedOf(json)
           t == need[1]
           name == need[2]
       IN  IF UsableVersion(registry, name)
           THEN LET json2 == [json EXCEPT ![t][name] =
                                 Exact(fetchPackageInfo(registry, name).value.version)]
                    r == RewriteEntries(json2, Entries(json2), publishedVersions,
                                        fetchedVersions)
                IN  /\ packages' = [packages EXCEPT ![p].json = r.json]
                    /\ task' = [task EXCEPT ![p].st =
                                   IF r.need = <<>> THEN "writing" ELSE "fetching"]
                    /\ lookups' = IF r.need = <<>> THEN lookups
                                  ELSE Append(lookups, [name |-> r.need[2],
                                                        batch |-> batchIndex])
                    /\ UNCHANGED <<pc, error>>
           ELSE /\ FailRun(p, "resolve", "Failed to resolve workspace dependency")
                /\ UNCHANGED <<packages, lookups>>
    /\ UNCHANGED <<allPkgs, changedPkgs, expandedPkgs, expandedAgain, publishPkgs,
                   orderedBatches>>
    /\ UNCHANGED <<envVars, npmPackages, published, publishedVersions,
                   fetchedVersions, batchIndex, output>>
    /\ UNCHANGED detectVars

\* 3. Fallback: the fetch rejects
FallbackFetchFails(p) ==
    /\ InCurrentBatch(p)
    /\ task[p].st = "fetching"
    /\ FailRun(p, "resolve", "Failed to resolve workspace dependency")
    /\ UNCHANGED <<packages, allPkgs, changedPkgs, expandedPkgs, expandedAgain,
                   publishPkgs, orderedBatches>>
    /\ UNCHANGED <<envVars, npmPackages, published, publishedVersions,
                   fetchedVersions, lookups, batchIndex, output>>
    /\ UNCHANGED detectVars

\* publishPackage is spawned without the package.json having been written
WriteDoneKeepsManifest(p) ==
    /\ InCurrentBatch(p)
    /\ task[p].st = "writing"
    /\ task' = [task EXCEPT ![p].st = "publishing"]
    /\ UNCHANGED <<graphVars, envVars>>
    /\ UNCHANGED <<npmPackages, published, publishedVersions, fetchedVersions, lookups,
                   batchIndex, output>>
    /\ UNCHANGED detectVars

\* writePackageJson completes; publishPackage spawns the publish command
WriteDone(p) ==
    /\ InCurrentBatch(p)
    /\ task[p].st = "writing"
    /\ manifests' = [manifests EXCEPT ![p] = packages[p].json]
    /\ task' = [task EXCEPT ![p].st = "publishing"]
    /\ UNCHANGED <<graphVars, repo, registry, registryLog, inputs, branch, run>>
    /\ UNCHANGED <<npmPackages, published, publishedVersions, fetchedVersions, lookups,
                   batchIndex, output>>
    /\ UNCHANGED detectVars

\* writePackageJson rejects
WriteFails(p) ==
    /\ InCurrentBatch(p)
    /\ task[p].st = "writing"
    /\ FailRun(p, "write", "Failed to write package.json")
    /\ UNCHANGED <<packages, allPkgs, changedPkgs, expandedPkgs, expandedAgain,
                   publishPkgs, orderedBatches>>
    /\ UNCHANGED <<envVars, npmPackages, published, publishedVersions,
                   fetchedVersions, lookups, batchIndex, output>>
    /\ UNCHANGED detectVars

\* the registry holds version v of p: it does not accept it a second time
VersionExists(p, v) ==
    \/ registry[p].latest = v
    \/ \E k \in 1..Len(registryLog) :
          registryLog[k].name = p /\ registryLog[k].version = v

\* the publish command exits 0: the registry holds the package.json on disk
PublishDone(p) ==
    /\ InCurrentBatch(p)
    /\ task[p].st = "publishing"
    /\ ~VersionExists(p, manifests[p].version)
    /\ registryLog' = Append(registryLog,
                             [name |-> p, version |-> manifests[p].version,
                              tag |-> getCurrentTag(branch), json |-> manifests[p],
                              run |-> run])
    /\ registry' = [registry EXCEPT ![p].latest =
                       IF getCurrentTag(branch) = "latest"
                       THEN manifests[p].version ELSE @]
    /\ task' = [task EXCEPT ![p].st = "done"]
    /\ UNCHANGED <<graphVars, repo, manifests, inputs, branch, run>>
    /\ UNCHANGED <<npmPackages, published, publishedVersions, fetchedVersions, lookups,
                   batchIndex, output>>
    /\ UNCHANGED detectVars

\* the publish command exits non-zero
PublishFails(p) ==
    /\ InCurrentBatch(p)
    /\ task[p].st = "publishing"
    /\ FailRun(p, "publish", "Command failed")
    /\ UNCHANGED <<packages, allPkgs, changedPkgs, expandedPkgs, expandedAgain,
                   publishPkgs, orderedBatches>>
    /\ UNCHANGED <<envVars, npmPackages, published, publishedVersions,
                   fetchedVersions, lookups, batchIndex, output>>
    /\ UNCHANGED detectVars

\* for (const res of results) if (res) { published.push(res); ... }
RECURSIVE RecordResults(_, _)
RecordResults(results, acc) ==
    IF results = <<>> THEN acc
    ELSE LET res == Head(results)
         IN  RecordResults(Tail(results),
                [published |-> Append(acc.published, res),
                 publishedVersions |->
                     [n \in DOMAIN acc.publishedVersions \cup {res.name} |->
                         IF n = res.name THEN res.updateVersion
                         ELSE acc.publishedVersions[n]],
                 output |-> Append(acc.output,
                                   [line |-> "Published", names |-> <<res.name>>])])

\* Promise.all resolves: record the results, go on to the next batch
CompleteBatch ==
    /\ pc = "awaitBatch"
    /\ BatchSettled(CurrentBatch)
    /\ LET done == SelectSeq(CurrentBatch, LAMBDA n : task[n].st = "done")
           results == [k \in 1..Len(done) |->
                          [name |-> done[k], updateVersion |-> task[done[k]].updateVersion]]
           r == RecordResults(results, [published |-> published,
                                        publishedVersions |-> publishedVersions,
                                        output |-> output])
       IN  /\ published' = r.published
           /\ publishedVersions' = r.publishedVersions
           /\ output' = r.output
    /\ batchIndex' = batchIndex + 1
    /\ pc' = "batch"
    /\ UNCHANGED <<packages, allPkgs, changedPkgs, expandedPkgs, expandedAgain,
                   publishPkgs, orderedBatches, error>>
    /\ UNCHANGED <<envVars, npmPackages, fetchedVersions, lookups, task>>
    /\ UNCHANGED detectVars

\* return published; the runner prints the summary; main exits with 0
ReturnPublished ==
    /\ pc = "batch"
    /\ batchIndex > Len(orderedBatches)
    /\ output' = Append(output,
                        [line |-> "Published packages",
                         names |-> [k \in 1..Len(published) |-> published[k].name]])
    /\ pc' = "exit0"
    /\ UNCHANGED <<packages, allPkgs, changedPkgs, expandedPkgs, expandedAgain,
                   publishPkgs, orderedBatches, error>>
    /\ UNCHANGED <<envVars, npmPackages, published, publishedVersions,
                   fetchedVersions, lookups, batchIndex, task>>
    /\ UNCHANGED detectVars

Next ==
    \/ LoadAllPackages
    \/ FilterAndBuild
    \/ BuildFails
    \/ CheckForChanges
    \/ ExpandDependentPackages
    \/ ResolveExecutionOrder
    \/ PrefetchVersions
    \/ StartBatch
    \/ \E p \in Names : FallbackFetchDone(p)
    \/ \E p \in Names : FallbackFetchFails(p)
    \/ \E p \in Names : WriteDone(p)
    \/ \E p \in Names : WriteFails(p)
    \/ \E p \in Names : PublishDone(p)
    \/ \E p \in Names : PublishFails(p)
    \/ CompleteBatch
    \/ ReturnPublished

----------------------------------------------------------------------------
(* The workspaces a run starts from *)

\* Bound: dependency entries over all package.json files of the workspace.
MaxDeps == 2

\* a package.json may declare, in each dependency type, each other package
Slots == {s \in Names \X {1, 2, 3} \X Names : s[1] # s[3]}

RECURSIVE SubsetsUpTo(_, _)
SubsetsUpTo(S, k) ==
    IF k = 0 THEN {{}}
    ELSE LET smaller == SubsetsUpTo(S, k - 1)
         IN  smaller \cup {x \cup {a} : x \in smaller, a \in S}

DeclarationsUpTo(k) ==
    UNION {[E -> {WorkspaceStar, CaretRange}] : E \in SubsetsUpTo(Slots, k)}

RepoOf(decl, notNpm) ==
    [n \in Names |->
        LET deps(k) == [t \in {t \in Names : <<n, k, t>> \in DOMAIN decl} |->
                           decl[<<n, k, t>>]]
        IN  [name |-> n, npm |-> n \notin notNpm, private |-> FALSE,
             version |-> Version000,
             dependencies |-> deps(1),
             devDependencies |-> deps(2),
             peerDependencies |-> deps(3)]]

\* every package published at Version123, but for the ones of noLatest, whose
\* registry document has no latest tag; the pre-fetch of the ones of flaky
\* is rejected
RegistryOf(noLatest, flaky) ==
    [n \in Names |-> [exists |-> TRUE,
                      latest |-> IF n \in noLatest THEN Version000 ELSE Version123,
                      tarball |-> n \notin noLatest,
                      flaky |-> n \in flaky]]

\* The plain run: every package npm-publishable and published, no force
\* publish, on the main branch.
PlainRun ==
    [notNpm |-> {}, noLatest |-> {}, flaky |-> {}, forcePublish |-> FALSE,
     branch |-> "main"]

\* The runs that differ from the plain one in one respect.
Variations ==
    {PlainRun}
    \cup {[PlainRun EXCEPT !.notNpm = {n}] : n \in Names}
    \cup {[PlainRun EXCEPT !.notNpm = Names]}
    \cup {[PlainRun EXCEPT !.noLatest = {n}] : n \in Names}
    \cup {[PlainRun EXCEPT !.notNpm = {n}, !.noLatest = {n}] : n \in Names}
    \cup {[PlainRun EXCEPT !.flaky = {n}] : n \in Names}
    \cup {[PlainRun EXCEPT !.forcePublish = TRUE]}
    \cup {[PlainRun EXCEPT !.branch = b] : b \in {"dev", "feature"}}

\* A variation counts as one of the MaxDeps entries.
EntriesLeft(v) == IF v = PlainRun THEN MaxDeps ELSE MaxDeps - 1

\* the process that starts with route input r from the declarations decl
\* under variation v
InitRoute(r, v, decl) ==
    /\ repo = RepoOf(decl, v.notNpm)
    /\ manifests = repo
    /\ registry = RegistryOf(v.noLatest, v.flaky)
    /\ inputs = [DEFAULT_WORKFLOW_INPUTS EXCEPT !.forcePublish = v.forcePublish,
                                                !.route = r]
    /\ branch = v.branch
    /\ run = 1
    /\ packages = <<>>
    /\ allPkgs = <<>>
    /\ changedPkgs = <<>>
    /\ expandedPkgs = <<>>
    /\ expandedAgain = <<>>
    /\ publishPkgs = <<>>
    /\ orderedBatches = <<>>
    /\ error = ""
    /\ pc = "load"
    /\ PublishIdle
    /\ DetectIdle

\* the workspace run that starts from the declarations decl under variation v
InitRun(v, decl) == InitRoute(DEFAULT_WORKFLOW_INPUTS.route, v, decl)

Init ==
    \E v \in Variations : \E decl \in DeclarationsUpTo(EntriesLeft(v)) :
        InitRun(v, decl)

Spec == Init /\ [][Next]_vars

\* The runs of workspaces with at most one dependency entry.
InitLive ==
    \E v \in Variations : \E decl \in DeclarationsUpTo(1) : InitRun(v, decl)

\* The run is one chain of awaits on the event loop: a step that can be
\* taken is taken.
SpecLive == InitLive /\ [][Next]_vars /\ WF_vars(Next)

----------------------------------------------------------------------------
(* index.ts: main, with package-publish-runner.ts: run *)

\* the values the route input may carry: the three of T_WorkflowInputs and
\* one that the cast lets through
Routes == {"package", "turborepo-package", "turborepo-workspace", "workspace"}

PackageRoutes == {"package", "turborepo-package"}

\* the package of inputs.packagePath
ThePackage == inputs.packagePath

\* else { throw new Error(`Invalid route: ...`) }
InvalidRouteExitsZero ==
    /\ pc = "load"
    /\ inputs.route \notin PackageRoutes \cup {"turborepo-workspace"}
    /\ pc' = "exit0"
    /\ error' = "Invalid route"
    /\ UNCHANGED <<packages, allPkgs, changedPkgs, expandedPkgs, expandedAgain,
                   publishPkgs, orderedBatches>>
    /\ UNCHANGED <<envVars, publishVars, detectVars>>

InvalidRoute ==
    /\ pc = "load"
    /\ inputs.route \notin PackageRoutes \cup {"turborepo-workspace"}
    /\ pc' = "exit1"
    /\ error' = "Invalid route"
    /\ UNCHANGED <<packages, allPkgs, changedPkgs, expandedPkgs, expandedAgain,
                   publishPkgs, orderedBatches>>
    /\ UNCHANGED <<envVars, publishVars, detectVars>>

\* Steps 1 and 2: load the package, refuse workspace dependencies
PackageLoad ==
    /\ pc = "load"
    /\ inputs.route \in PackageRoutes
    /\ LET loaded == loadPackage(manifests[ThePackage], registry, inputs)
       IN  IF loaded.thrown
           THEN /\ pc' = "exit1"
                /\ error' = loaded.error
                /\ UNCHANGED packages
           ELSE IF \E k \in 1..Len(loaded.value.dependencies) :
                      loaded.value.dependencies[k].type = "workspace"
           THEN /\ pc' = "exit1"
                /\ error' = "Workspace dependencies are not supported in package route"
                /\ UNCHANGED packages
           ELSE /\ packages' = [n \in {ThePackage} |-> loaded.value]
                /\ pc' = "packageBuild"
                /\ UNCHANGED error
    /\ UNCHANGED <<allPkgs, changedPkgs, expandedPkgs, expandedAgain, publishPkgs,
                   orderedBatches>>
    /\ UNCHANGED <<envVars, publishVars, detectVars>>

\* Steps 3 to 5: build, check for changes, calculate the update version
PackageBuildAndCheck ==
    /\ pc = "packageBuild"
    /\ \E hasChanges \in BOOLEAN :
          /\ FirstPublish(ThePackage) => hasChanges
          /\ IF ~(inputs.forcePublish \/ hasChanges)
             THEN /\ pc' = "exit0"
                  /\ UNCHANGED <<packages, task, error>>
             ELSE LET c == calcUpdateVersion(packages[ThePackage].version,
                                             inputs.bumpLevel, branch)
                  IN  IF c.thrown
                      THEN /\ pc' = "exit1"
                           /\ error' = c.error
                           /\ UNCHANGED <<packages, task>>
                      ELSE /\ packages' = [packages EXCEPT
                                              ![ThePackage].json.version = c.value]
                           /\ task' = [task EXCEPT ![ThePackage] =
                                          [st |-> "writing", at |-> "",
                                           updateVersion |-> c.value]]
                           /\ pc' = "packageWrite"
                           /\ UNCHANGED error
    /\ UNCHANGED <<allPkgs, changedPkgs, expandedPkgs, expandedAgain, publishPkgs,
                   orderedBatches>>
    /\ UNCHANGED <<envVars, npmPackages, published, publishedVersions,
                   fetchedVersions, lookups, batchIndex, output>>
    /\ UNCHANGED detectVars

\* Step 3 with a failing build command
PackageBuildFails ==
    /\ pc = "packageBuild"
    /\ pc' = "exit1"
    /\ error' = "Command failed"
    /\ UNCHANGED <<packages, allPkgs, changedPkgs, expandedPkgs, expandedAgain,
                   publishPkgs, orderedBatches>>
    /\ UNCHANGED <<envVars, publishVars, detectVars>>

\* Step 6: writePackageJson completes
PackageWriteDone ==
    /\ pc = "packageWrite"
    /\ manifests' = [manifests EXCEPT ![ThePackage] = packages[ThePackage].json]
    /\ task' = [task EXCEPT ![ThePackage].st = "publishing"]
    /\ pc' = "packagePublish"
    /\ UNCHANGED <<packages, allPkgs, changedPkgs, expandedPkgs, expandedAgain,
                   publishPkgs, orderedBatches, error>>
    /\ UNCHANGED <<repo, registry, registryLog, inputs, branch, run>>
    /\ UNCHANGED <<npmPackages, published, publishedVersions, fetchedVersions, lookups,
                   batchIndex, output>>
    /\ UNCHANGED detectVars

\* Step 6: writePackageJson or the publish command fails
PackagePublishFails ==
    /\ pc \in {"packageWrite", "packagePublish"}
    /\ task' = [task EXCEPT ![ThePackage] =
                   FailedTask(IF pc = "packageWrite" THEN "write" ELSE "publish")]
    /\ pc' = "exit1"
    /\ error' = IF pc = "packageWrite" THEN "Failed to write package.json"
                ELSE "Command failed"
    /\ UNCHANGED <<packages, allPkgs, changedPkgs, expandedPkgs, expandedAgain,
                   publishPkgs, orderedBatches>>
    /\ UNCHANGED <<envVars, npmPackages, published, publishedVersions,
                   fetchedVersions, lookups, batchIndex, output>>
    /\ UNCHANGED detectVars

\* Step 6: the publish command exits 0; run returns, main exits with 0
PackagePublished ==
    /\ pc = "packagePublish"
    /\ ~VersionExists(ThePackage, manifests[ThePackage].version)
    /\ registryLog' = Append(registryLog,
                             [name |-> ThePackage,
                              version |-> manifests[ThePackage].version,
                              tag |-> getCurrentTag(branch),
                              json |-> manifests[ThePackage],
                              run |-> run])
    /\ registry' = [registry EXCEPT ![ThePackage].latest =
                       IF getCurrentTag(branch) = "latest"
                       THEN manifests[ThePackage].version ELSE @]
    /\ task' = [task EXCEPT ![ThePackage].st = "done"]
    /\ pc' = "exit0"
    /\ UNCHANGED <<packages, allPkgs, changedPkgs, expandedPkgs, expandedAgain,
                   publishPkgs, orderedBatches, error>>
    /\ UNCHANGED <<repo, manifests, inputs, branch, run>>
    /\ UNCHANGED <<npmPackages, published, publishedVersions, fetchedVersions, lookups,
                   batchIndex, output>>
    /\ UNCHANGED detectVars

NextMain ==
    \/ InvalidRoute
    \/ PackageLoad
    \/ PackageBuildAndCheck
    \/ PackageBuildFails
    \/ PackageWriteDone
    \/ PackagePublishFails
    \/ PackagePublished
    \/ Next
----------------------------------------------------------------------------
(* The manifests and registry documents loadAllPackages may meet *)

\* Bound: dependency entries in the package.json of the declaring package.
MaxSpecifiers == 2

Keyword == [proto |-> "", op |-> "latest", ver |-> Version000]

Wildcard == [proto |-> "", op |-> "*", ver |-> Version000]

\* text that is no range, keyword or scheme, such as "not-a-version"
Word == [proto |-> "", op |-> "word", ver |-> Version000]

\* file:../core, link:../core, git://host/core.git, http(s)://host/core.tgz
ProtocolSpecifier(proto) == [proto |-> proto, op |-> "", ver |-> Version000]

\* a scheme isValidVersion does not list, such as github:owner/core
GithubShorthand == ProtocolSpecifier("github:")

Specifiers ==
    {WorkspaceStar, CaretRange, Exact(Version123), Keyword, Wildcard, Word,
     GithubShorthand}
        \cup {ProtocolSpecifier(proto) : proto \in RejectedProtocols}

\* package p declares spec[<<k, t>>] for package t in its dependency type k
LoadRepo(p, spec, v) ==
    [n \in Names |->
        LET deps(k) == IF n = p
                       THEN [t \in {t \in Names : <<k, t>> \in DOMAIN spec} |->
                                spec[<<k, t>>]]
                       ELSE EmptyDeps
        IN  [name |-> IF n \in v.nameless THEN "" ELSE n,
             npm |-> TRUE,
             private |-> n \in v.private,
             version |-> Version000,
             dependencies |-> deps(1),
             devDependencies |-> deps(2),
             peerDependencies |-> deps(3)]]

\* the registry answers 404 for the names of absent
LoadRegistry(absent) ==
    [n \in Names |-> [exists |-> n \notin absent, latest |-> Version123,
                      tarball |-> TRUE, flaky |-> FALSE]]

PlainLoad == [nameless |-> {}, private |-> {}, absent |-> {}, access |-> "public"]

LoadVariations ==
    {PlainLoad}
    \cup {[PlainLoad EXCEPT !.nameless = {n}] : n \in Names}
    \cup {[PlainLoad EXCEPT !.absent = {n}] : n \in Names}
    \cup {[PlainLoad EXCEPT !.private = {n}] : n \in Names}
    \cup {[PlainLoad EXCEPT !.private = S, !.access = "restricted"] :
              S \in {Names} \cup {Names \ {n} : n \in Names}}

\* A variation counts as one of the MaxSpecifiers entries.
SpecifiersLeft(v) == IF v = PlainLoad THEN MaxSpecifiers ELSE MaxSpecifiers - 1

InitLoad ==
    \E v \in LoadVariations : \E p \in Names :
    \E K \in SubsetsUpTo({1, 2, 3} \X (Names \ {p}), SpecifiersLeft(v)) :
    \E spec \in [K -> Specifiers] :
        /\ repo = LoadRepo(p, spec, v)
        /\ manifests = repo
        /\ registry = LoadRegistry(v.absent)
        /\ inputs = [DEFAULT_WORKFLOW_INPUTS EXCEPT !.access = v.access]
        /\ branch = "main"
        /\ run = 1
        /\ packages = <<>>
        /\ allPkgs = <<>>
        /\ changedPkgs = <<>>
        /\ expandedPkgs = <<>>
        /\ expandedAgain = <<>>
        /\ publishPkgs = <<>>
        /\ orderedBatches = <<>>
        /\ error = ""
        /\ pc = "load"
        /\ PublishIdle
        /\ DetectIdle

NextLoad == LoadAllPackages

SpecLoad == InitLoad /\ [][NextLoad]_vars

----------------------------------------------------------------------------
(* package-service.ts: checkChanges, one action per await of the callback;
   workspace-publish-runner.ts: step 4 *)

\* delete pkg.version
DeleteVersion(json) == [json EXCEPT !.version = AbsentVersion]

WorkspaceNamesIn(deps) == {n \in DOMAIN deps : IsWorkspaceSpecifier(deps[n])}

Without(deps, names) == [n \in DOMAIN deps \ names |-> deps[n]]

\* for each dependency type: the names localPkg declares with a workspace
\* specifier are deleted from that type of localPkg and of publishedPkg (the
\* manifests of the model carry no optionalDependencies)
removeWorkspaceDeps(localPkg, publishedPkg) ==
    [localPkg |->
        [localPkg EXCEPT
            !.dependencies = Without(@, WorkspaceNamesIn(localPkg.dependencies)),
            !.devDependencies = Without(@, WorkspaceNamesIn(localPkg.devDependencies)),
            !.peerDependencies = Without(@, WorkspaceNamesIn(localPkg.peerDependencies))],
     publishedPkg |->
        [publishedPkg EXCEPT
            !.dependencies = Without(@, WorkspaceNamesIn(localPkg.dependencies)),
            !.devDependencies = Without(@, WorkspaceNamesIn(localPkg.devDependencies)),
            !.peerDependencies = Without(@, WorkspaceNamesIn(localPkg.peerDependencies))]]

\* An extracted package directory: its package.json, its other files, and
\* the bytes getDirectorySize counts once package.json is written back.
\* The two directories of a package after lines 315-329:
NormalizedDirs(a) ==
    LET r == removeWorkspaceDeps(DeleteVersion(a.local.json), DeleteVersion(a.npm.json))
    IN  [local |-> [json |-> r.localPkg, files |-> a.local.files],
         npm |-> [json |-> r.publishedPkg, files |-> a.npm.files]]

\* diff -rq of the two directories when the tool runs to its end
DiffExitCode(a) == IF NormalizedDirs(a).local = NormalizedDirs(a).npm THEN 0 ELSE 1

\* Math.abs(localSize - npmSize) > 100
SizesDiffer(a) ==
    LET delta == a.local.size - a.npm.size
    IN  (IF delta < 0 THEN 0 - delta ELSE delta) > 100

\* what stops the callback between mkdtemp and the comparison
CheckFailures == {"fetch", "oversize", "pack", "extract", "read"}

\* exit codes of timeout 30 diff -rq: 0 same, 1 differences, 124 timed out,
\* 2 trouble; sizeError: exit code 2 and getDirectorySize throws
DiffOutcomes(a) ==
    {IF DiffExitCode(a) = 0 THEN "exit0" ELSE "exit1", "exit124", "exit2", "sizeError"}

\* hasChanges of lines 337-357, and the catch of line 368
ResultOfFailureNull(outcome, a) ==
    IF outcome \in CheckFailures THEN "none"
    ELSE IF outcome = "exit0" THEN "unchanged"
    ELSE IF outcome = "exit2"
         THEN (IF SizesDiffer(a) THEN "changed" ELSE "unchanged")
         ELSE "changed"

ResultOf(outcome, a) ==
    IF outcome \in CheckFailures THEN "changed"
    ELSE IF outcome = "exit0" THEN "unchanged"
    ELSE IF outcome = "exit2"
         THEN (IF SizesDiffer(a) THEN "changed" ELSE "unchanged")
         ELSE "changed"

TmpPrefixes == {"npm-", "local-"}

TmpDirsOf(p) == {dir \in tmpDirs : dir[1] = p}

\* checkChanges is called: each callback runs up to its first await
CheckChangesStart ==
    /\ pc = "detect"
    /\ ~inputs.forcePublish
    /\ pc' = "detecting"
    /\ check' = [n \in Names |->
                    IF ~Contains(npmPackages, n) THEN check[n]
                    ELSE IF FirstPublish(n)
                         THEN [at |-> "done", outcome |-> "", result |-> "changed"]
                         ELSE [at |-> "mkdtemp", outcome |-> "", result |-> "none"]]
    /\ UNCHANGED <<packages, allPkgs, changedPkgs, expandedPkgs, expandedAgain,
                   publishPkgs, orderedBatches, error>>
    /\ UNCHANGED <<envVars, publishVars, artifacts, tmpDirs>>

\* await Promise.all([mkdtemp, mkdtemp]): both directories exist, or one of
\* the calls rejected and the catch of line 368 returns pkg
MkdtempSettled(p) ==
    /\ check[p].at = "mkdtemp"
    /\ \E created \in SUBSET TmpPrefixes :
          /\ tmpDirs' = tmpDirs \cup {<<p, prefix>> : prefix \in created}
          /\ check' = [check EXCEPT ![p] =
                IF created = TmpPrefixes
                THEN [at |-> "tarballs", outcome |-> "", result |-> "none"]
                ELSE [at |-> "done", outcome |-> "mkdtemp", result |-> "changed"]]
    /\ UNCHANGED <<graphVars, envVars, publishVars, artifacts>>

\* lines 300-360 up to the finally: the tarballs are created, read and
\* compared, or one of these steps throws
TarballsCompared(p) ==
    /\ check[p].at = "tarballs"
    /\ \E outcome \in CheckFailures \cup DiffOutcomes(artifacts[p]) :
          check' = [check EXCEPT ![p] =
                       [at |-> "cleanup", outcome |-> outcome,
                        result |-> ResultOf(outcome, artifacts[p])]]
    /\ UNCHANGED <<graphVars, envVars, publishVars, artifacts, tmpDirs>>

\* the finally of line 361: fs.rm of both directories, a rejected rm is
\* swallowed and leaves its directory; then the callback returns
TmpDirsRemoved(p) ==
    /\ check[p].at = "cleanup"
    /\ \E kept \in SUBSET TmpDirsOf(p) :
          tmpDirs' = (tmpDirs \ TmpDirsOf(p)) \cup kept
    /\ check' = [check EXCEPT ![p].at = "done"]
    /\ UNCHANGED <<graphVars, envVars, publishVars, artifacts>>

AllChecked == \A i \in 1..Len(npmPackages) : check[npmPackages[i]].at = "done"

\* Promise.all of checkChanges resolves and wins the race of line 150
CheckChangesResolved ==
    /\ pc = "detecting"
    /\ AllChecked
    /\ changedPkgs' = SelectSeq(npmPackages, LAMBDA n : check[n].result = "changed")
    /\ pc' = IF changedPkgs' = <<>> THEN "exit0" ELSE "expand"
    /\ UNCHANGED <<packages, allPkgs, expandedPkgs, expandedAgain, publishPkgs,
                   orderedBatches, error>>
    /\ UNCHANGED <<envVars, publishVars, detectVars>>

\* the timer of line 147 fires first: the catch of line 152 takes every
\* npm-publishable package; the callbacks of checkChanges keep running
ChangeDetectionTimedOutPartial ==
    /\ pc = "detecting"
    /\ ~AllChecked
    /\ changedPkgs' = SelectSeq(npmPackages, LAMBDA n : check[n].result = "changed")
    /\ pc' = "expand"
    /\ UNCHANGED <<packages, allPkgs, expandedPkgs, expandedAgain, publishPkgs,
                   orderedBatches, error>>
    /\ UNCHANGED <<envVars, publishVars, detectVars>>

ChangeDetectionTimedOut ==
    /\ pc = "detecting"
    /\ ~AllChecked
    /\ changedPkgs' = npmPackages
    /\ pc' = "expand"
    /\ UNCHANGED <<packages, allPkgs, expandedPkgs, expandedAgain, publishPkgs,
                   orderedBatches, error>>
    /\ UNCHANGED <<envVars, publishVars, detectVars>>

\* lines 138-140
ForcePublish ==
    /\ pc = "detect"
    /\ inputs.forcePublish
    /\ changedPkgs' = npmPackages
    /\ pc' = "expand"
    /\ UNCHANGED <<packages, allPkgs, expandedPkgs, expandedAgain, publishPkgs,
                   orderedBatches, error>>
    /\ UNCHANGED <<envVars, publishVars, detectVars>>

NextDetect ==
    \/ CheckChangesStart
    \/ \E p \in Names : MkdtempSettled(p)
    \/ \E p \in Names : TarballsCompared(p)
    \/ \E p \in Names : TmpDirsRemoved(p)
    \/ CheckChangesResolved
    \/ ChangeDetectionTimedOut
    \/ ForcePublish

\* what the last publish of a package.json put into the registry: the
\* version of that run, workspace specifiers replaced by versions
PublishedFrom(json) ==
    LET resolved(deps) ==
            [n \in DOMAIN deps |->
                IF IsWorkspaceSpecifier(deps[n]) THEN Exact(Version123) ELSE deps[n]]
    IN  [json EXCEPT !.version = Version123,
                     !.dependencies = resolved(@),
                     !.devDependencies = resolved(@),
                     !.peerDependencies = resolved(@)]

\* app depends on core inside the workspace, utils on a published core
DetectDeclarations ==
    [s \in {<<"app", 1, "core">>, <<"utils", 2, "core">>} |->
        IF s[1] = "app" THEN WorkspaceStar ELSE CaretRange]

\* the local and the published artifact of a package whose checked-out
\* manifest is json: same = nothing changed since the last publish; near =
\* other files changed, total size within 100 bytes; far = other files
\* changed, total size more than 100 bytes apart; manifest = only
\* package.json changed (a peer dependency of the last publish is gone)
ArtifactsOf(json, kind) ==
    [local |-> [json |-> json,
                files |-> IF kind \in {"near", "far"} THEN kind ELSE "same",
                size |-> IF kind = "near" THEN 1040
                         ELSE IF kind = "far" THEN 1500 ELSE 1000],
     npm |-> [json |-> IF kind = "manifest"
                       THEN [PublishedFrom(json) EXCEPT
                                !.peerDependencies = [n \in {"lodash"} |-> CaretRange]]
                       ELSE PublishedFrom(json),
              files |-> "same",
              size |-> IF kind = "manifest" THEN 1020 ELSE 1000]]

\* registry documents: published = latest 1.2.3 with a tarball; noLatest =
\* no dist-tags.latest; zero = latest 0.0.0 with a tarball; noTarball =
\* latest 1.2.3 whose dist has no tarball
DetectRegistry(kinds) ==
    [n \in Names |->
        [exists |-> TRUE,
         latest |-> IF kinds[n] \in {"noLatest", "zero"} THEN Version000 ELSE Version123,
         tarball |-> kinds[n] \notin {"noLatest", "noTarball"},
         flaky |-> FALSE]]

PackageKinds ==
    {"same", "near", "far", "manifest", "noLatest", "zero", "noTarball", "notNpm"}

\* The runs in which at least one package has no latest tag in the registry.
DetectKinds ==
    {kinds \in [Names -> PackageKinds] : \E m \in Names : kinds[m] = "noLatest"}

InitDetect ==
    \E kinds \in DetectKinds : \E force \in BOOLEAN :
        /\ repo = RepoOf(DetectDeclarations, {n \in Names : kinds[n] = "notNpm"})
        /\ manifests = repo
        /\ registry = DetectRegistry(kinds)
        /\ inputs = [DEFAULT_WORKFLOW_INPUTS EXCEPT !.forcePublish = force]
        /\ branch = "main"
        /\ run = 1
        /\ packages = [n \in Names |-> loadPackage(repo[n], registry, inputs).value]
        /\ allPkgs = PkgNames
        /\ npmPackages = NpmPublishable
        /\ artifacts = [n \in Names |-> ArtifactsOf(repo[n], kinds[n])]
        /\ check = [n \in Names |-> IdleCheck]
        /\ tmpDirs = {}
        /\ changedPkgs = <<>>
        /\ expandedPkgs = <<>>
        /\ expandedAgain = <<>>
        /\ publishPkgs = <<>>
        /\ orderedBatches = <<>>
        /\ error = ""
        /\ pc = "detect"
        /\ published = <<>>
        /\ publishedVersions = NoVersions
        /\ fetchedVersions = NoVersions
        /\ lookups = <<>>
        /\ batchIndex = 1
        /\ task = [n \in Names |-> IdleTask]
        /\ output = <<>>
        /\ registryLog = <<>>

SpecDetect == InitDetect /\ [][NextDetect]_vars

----------------------------------------------------------------------------
(* Properties of resolveExecutionBatches, stated over the input graph *)

\* A declares an internal (workspace) dependency on B
DeclaresInternal(a, b) ==
    \E i \in 1..Len(packages[a].dependencies) :
        /\ packages[a].dependencies[i].name = b
        /\ packages[a].dependencies[i].type = "workspace"

\* b is reached from a along k >= 1 internal edges that stay inside S
RECURSIVE ReachesWithin(_, _, _, _)
ReachesWithin(S, a, b, k) ==
    IF k = 0 THEN FALSE
    ELSE \E m \in S :
            /\ DeclaresInternal(a, m)
            /\ (m = b \/ ReachesWithin(S, m, b, k - 1))

HasCycle(S) == \E n \in S : ReachesWithin(S, n, n, Cardinality(S))

BatchesOf(n) == {i \in 1..Len(orderedBatches) : Contains(orderedBatches[i], n)}

ScheduleInput == Range(publishPkgs)

\* C1: on an acyclic package set resolveExecutionBatches returns a plan in
\* which, whenever A declares an internal dependency on B and both are in the
\* set, B's batch index is strictly smaller than A's batch index.
C1_DependencyBeforeDependent ==
    (pc # "schedule" /\ ~HasCycle(ScheduleInput)) =>
        /\ pc = "publish"
        /\ \A a, b \in ScheduleInput :
              DeclaresInternal(a, b) =>
                  /\ BatchesOf(a) # {} /\ BatchesOf(b) # {}
                  /\ \A i \in BatchesOf(a) : \A j \in BatchesOf(b) : j < i

C1_Witness ==
    /\ pc = "publish"
    /\ Len(orderedBatches) = 3
    /\ \E a, b \in ScheduleInput : DeclaresInternal(a, b)

\* C2: a returned plan has pairwise disjoint batches whose union is exactly
\* the input package set: every input package is in exactly one batch, once,
\* and no other package is in any batch.
C2_PlanPartitionsInput ==
    pc = "publish" =>
        /\ NoDuplicates(Concat(orderedBatches))
        /\ Range(Concat(orderedBatches)) = ScheduleInput
        /\ \A n \in ScheduleInput : Cardinality(BatchesOf(n)) = 1

C2_Witness ==
    /\ pc = "publish"
    /\ Len(orderedBatches) = 2
    /\ Cardinality(ScheduleInput) = 3

\* C3: on a package set whose internal edges, restricted to the set, contain
\* a cycle (a self-dependency included), resolveExecutionBatches throws the
\* circular-dependency error and its caller receives no batch at all.
C3_CycleThrowsNoPlan ==
    (pc # "schedule" /\ HasCycle(ScheduleInput)) =>
        /\ pc = "exit1"
        /\ error = "Circular dependency detected"
        /\ orderedBatches = <<>>

\* a self-dependent package next to a package that is ready at once: a prefix
\* of the plan would hold the ready package
C3_Witness ==
    /\ pc = "exit1"
    /\ \E n \in ScheduleInput : DeclaresInternal(n, n)
    /\ \E n \in ScheduleInput : \A m \in ScheduleInput : ~DeclaresInternal(n, m)

----------------------------------------------------------------------------
(* Properties of expandDependents *)

\* T contains every package of allPkgs that declares an internal dependency
\* on a member of T
ClosedUnderDependents(T) ==
    \A p \in Range(allPkgs) : \A t \in T : DeclaresInternal(p, t) => p \in T

\* C9: expandDependents is idempotent: applied to its own result it returns
\* the same set of packages.
C9_ExpandIdempotent ==
    pc = "expandedTwice" => Range(expandedAgain) = Range(expandedPkgs)

C9_Witness ==
    /\ pc = "expandedTwice"
    /\ Len(changedPkgs) = 1
    /\ Len(expandedPkgs) = 3

\* C10: expandDependents returns exactly the transitive closure of dependents:
\* the smallest set that contains changedPkgs and is closed under internal
\* dependents over allPkgs, each package once.
C10_ExpandIsClosure ==
    pc = "expanded" =>
        /\ NoDuplicates(expandedPkgs)
        /\ Range(changedPkgs) \subseteq Range(expandedPkgs)
        /\ ClosedUnderDependents(Range(expandedPkgs))
        /\ \A T \in SUBSET Range(allPkgs) :
              (Range(changedPkgs) \subseteq T /\ ClosedUnderDependents(T))
                  => Range(expandedPkgs) \subseteq T

\* an indirect dependent reached through a package that is neither changed
\* nor npm-publishable
C10_Witness ==
    /\ pc = "expanded"
    /\ \E c, m, d \in Names :
          /\ Range(changedPkgs) = {c}
          /\ DeclaresInternal(m, c) /\ ~packages[m].hasNpmTag
          /\ DeclaresInternal(d, m) /\ ~DeclaresInternal(d, c)
          /\ d # c
          /\ d \in Range(expandedPkgs)

----------------------------------------------------------------------------
(* Properties of publishBatches and of the run around it *)

BatchOf(n) == {i \in 1..Len(orderedBatches) : Contains(orderedBatches[i], n)}

PublishedNames == {registryLog[k].name : k \in 1..Len(registryLog)}

\* the checked-out package.json of p declares d with a workspace specifier in
\* dependency type t
DeclaresWorkspace(p, t, d) ==
    /\ d \in DOMAIN repo[p][t]
    /\ IsWorkspaceSpecifier(repo[p][t][d])

\* C4: for every published package P and every dependency D that P's
\* package.json declares with a workspace specifier in dependencies,
\* devDependencies or peerDependencies: if D was published with version v in
\* this run, the package.json of P that was written and published carries
\* specifier v for D.
C4_RewriteUsesRunVersion ==
    \A i, j \in 1..Len(registryLog) : \A k \in 1..Len(DepTypes) :
        DeclaresWorkspace(registryLog[i].name, DepTypes[k], registryLog[j].name) =>
            registryLog[i].json[DepTypes[k]][registryLog[j].name]
                = Exact(registryLog[j].version)

\* C5: no step of a package of a later batch starts before every package of
\* each earlier batch has completed its own steps, successfully or not.
C5_BatchesSequential ==
    \A p, q \in Names :
        (/\ task[q].st # "idle"
         /\ \E i \in BatchOf(p) : \E j \in BatchOf(q) : i < j)
            => task[p].st \in {"done", "failed"}

\* a package of the second batch is at work after a first batch of two
C5_Witness ==
    /\ Len(orderedBatches) = 2
    /\ Len(orderedBatches[1]) = 2
    /\ \E q \in Range(orderedBatches[2]) : task[q].st = "publishing"

IsPrefix(s, t) == Len(s) <= Len(t) /\ \A k \in 1..Len(s) : s[k] = t[k]

PublishFailedBefore(q) ==
    \E p \in Names :
        /\ task[p].st = "failed" /\ task[p].at = "publish"
        /\ \E i \in BatchOf(p) : \E j \in BatchOf(q) : i < j

\* C6: once the publish of a package of batch i has failed, no step of a
\* package of a batch j > i starts, so no publish is started for it; and the
\* publishes the registry holds only grow: nothing is unpublished.
C6_NoPublishAfterFailure ==
    [][/\ IsPrefix(registryLog, registryLog')
       /\ \A q \in Names :
             PublishFailedBefore(q) => (task[q].st = "idle" /\ task'[q].st = "idle")]_vars

\* a publish fails in the first batch after a sibling was published, with a
\* second batch waiting
C6_Witness ==
    /\ pc = "exit1"
    /\ Len(orderedBatches) = 2
    /\ \E p \in Range(orderedBatches[1]) : task[p].st = "failed" /\ task[p].at = "publish"
    /\ \E p \in Range(orderedBatches[1]) : p \in PublishedNames
    /\ \A q \in Range(orderedBatches[2]) : task[q].st = "idle"

\* the packages that a line of the run's output names as published
ListedAsPublished ==
    UNION {Range(output[k].names) : k \in 1..Len(output)}

\* C7: when the run ends with an error of the publish step, its output lists
\* the packages published before the error, those of the failing batch
\* included; and the run does not end in success when a package of the
\* intended set was not published.
C7_FailureOutputListsPublished ==
    /\ (pc = "exit1" /\ \E p \in Names : task[p].st = "failed")
          => PublishedNames \subseteq ListedAsPublished
    /\ (pc = "exit0" /\ orderedBatches # <<>>)
          => Range(publishPkgs) \subseteq PublishedNames

\* C8: every package whose publish succeeded has its Publish Record in
\* publishedVersions and in the list publishBatches returns, also when
\* another package of its batch fails.
C8_PublishedHasRecord ==
    pc \in {"exit0", "exit1"} =>
        \A k \in 1..Len(registryLog) :
            /\ registryLog[k].name \in DOMAIN publishedVersions
            /\ publishedVersions[registryLog[k].name] = registryLog[k].version
            /\ \E m \in 1..Len(published) :
                  published[m] = [name |-> registryLog[k].name,
                                  updateVersion |-> registryLog[k].version]

----------------------------------------------------------------------------
(* The scenario of core, utils and app *)

\* app declares core in dependency type k1 and utils in type k2, both with a
\* workspace specifier; nothing else is declared
ScenarioDeclarations(k1, k2) ==
    [s \in {<<"app", k1, "core">>, <<"app", k2, "utils">>} |-> WorkspaceStar]

\* all three packages publish-eligible and published, main branch, app
\* depends on core and utils, and change detection reported utils alone
ScenarioOnlyUtilsChanged ==
    /\ branch = "main"
    /\ changedPkgs = <<"utils">>
    /\ \A n \in Names : packages[n].version = Version123
    /\ \E k1, k2 \in 1..Len(DepTypes) : repo = RepoOf(ScenarioDeclarations(k1, k2), {})

PositionIn(log, n) == CHOOSE k \in 1..Len(log) : log[k].name = n

\* C11: in the scenario the expansion is {utils, app}, the plan is
\* [[utils], [app]], core is never published, app is published only after
\* utils, and the package.json app is published with references the version
\* utils was published with in this run.
C11_ScenarioUtilsThenApp ==
    ScenarioOnlyUtilsChanged =>
        /\ pc # "expand" => expandedPkgs = <<"utils", "app">>
        /\ pc \notin {"expand", "schedule"} =>
              orderedBatches = <<<<"utils">>, <<"app">>>>
        /\ "core" \notin PublishedNames
        /\ "app" \in PublishedNames =>
              /\ "utils" \in PublishedNames
              /\ PositionIn(registryLog, "utils") < PositionIn(registryLog, "app")
              /\ \A k \in 1..Len(DepTypes) :
                    DeclaresWorkspace("app", DepTypes[k], "utils") =>
                        registryLog[PositionIn(registryLog, "app")].json[DepTypes[k]]["utils"]
                            = Exact(registryLog[PositionIn(registryLog, "utils")].version)

\* the scenario ran to its end: utils and then app are on the registry
C11_Witness ==
    /\ ScenarioOnlyUtilsChanged
    /\ pc = "exit0"
    /\ [k \in 1..Len(registryLog) |-> registryLog[k].name] = <<"utils", "app">>
    /\ registryLog[1].version = <<1, 2, 4, NoPre>>

----------------------------------------------------------------------------
(* More properties of resolveExecutionBatches *)

OnePlanBatchOfAll ==
    /\ pc = "publish"
    /\ Len(orderedBatches) = 1
    /\ Range(orderedBatches[1]) = ScheduleInput
    /\ Len(orderedBatches[1]) = Cardinality(ScheduleInput)

\* C12: on a non-empty package set in which no package has an internal
\* dependency on a package of the set, itself included,
\* resolveExecutionBatches returns exactly one batch, and that batch holds
\* every package of the set.
C12_NoInternalEdgesOneBatch ==
    (/\ pc # "schedule"
     /\ ScheduleInput # {}
     /\ \A a, b \in ScheduleInput : ~DeclaresInternal(a, b))
        => OnePlanBatchOfAll

\* two or more packages, one of them with a dependency that leaves the set
C12_Witness ==
    /\ OnePlanBatchOfAll
    /\ Cardinality(ScheduleInput) >= 2
    /\ \E a \in ScheduleInput : \E b \in Names \ ScheduleInput : DeclaresInternal(a, b)

\* C12 as stated: on every package set in which no package has an internal
\* dependency on another package of the set, the plan is exactly one batch
\* of all packages.
C12_AsStated ==
    (/\ pc # "schedule"
     /\ \A a, b \in ScheduleInput : a # b => ~DeclaresInternal(a, b))
        => OnePlanBatchOfAll

\* C13: a package of the subset none of whose internal dependencies is in
\* the subset is in the first batch of the plan, and a circular-dependency
\* error is thrown only when the edges inside the subset hold a cycle.
C13_OutsideEdgesDoNotBlock ==
    /\ pc = "publish" =>
          \A p \in ScheduleInput :
              (\A m \in ScheduleInput : ~DeclaresInternal(p, m))
                  => Contains(orderedBatches[1], p)
    /\ (pc = "exit1" /\ error = "Circular dependency detected")
          => HasCycle(ScheduleInput)
    /\ (pc # "schedule" /\ ~HasCycle(ScheduleInput)) => pc = "publish"

\* a package whose only internal dependency is outside the subset is in the
\* first batch, ahead of a dependent of the subset
C13_Witness ==
    /\ pc = "publish"
    /\ Len(orderedBatches) = 2
    /\ \E p \in Range(orderedBatches[1]) :
          /\ \E m \in Names \ ScheduleInput : DeclaresInternal(p, m)
          /\ \E q \in Range(orderedBatches[2]) : DeclaresInternal(q, p)

----------------------------------------------------------------------------
(* Failures of the run *)

\* C14: when the packages to publish hold a dependency cycle, the run ends
\* with the circular-dependency failure; no package.json on disk is
\* rewritten and nothing is published, the packages off the cycle included.
C14_CycleAbortsBeforeAnyPublish ==
    (publishPkgs # <<>> /\ HasCycle(Range(publishPkgs))) =>
        /\ pc \in {"schedule", "exit1"}
        /\ pc = "exit1" => error = "Circular dependency detected"
        /\ manifests = repo
        /\ registryLog = <<>>
        /\ \A n \in Names : task[n].st = "idle"

\* the run failed on a cycle while a package off the cycle was to be published
C14_Witness ==
    /\ pc = "exit1"
    /\ error = "Circular dependency detected"
    /\ \E n \in Range(publishPkgs) :
          ~ReachesWithin(Range(publishPkgs), n, n, Len(publishPkgs))


\* every dependency that p's checked-out package.json declares with a
\* workspace specifier carries, in json, an exact version other than 0.0.0
ResolvedToUsableVersions(p, json) ==
    \A k \in 1..Len(DepTypes) : \A d \in DOMAIN repo[p][DepTypes[k]] :
        IsWorkspaceSpecifier(repo[p][DepTypes[k]][d]) =>
            /\ ~IsWorkspaceSpecifier(json[DepTypes[k]][d])
            /\ json[DepTypes[k]][d].ver # Version000

FailedToResolve(t) == t.st = "failed" /\ t.at = "resolve"

\* p awaits the lookup of a dependency that has no Publish Record and no
\* pre-fetched version, and the registry has no usable version of it
AwaitsUnusableLookup(p) ==
    /\ pc = "awaitBatch"
    /\ task[p].st = "fetching"
    /\ ~UsableVersion(registry, NeedOf(packages[p].json)[2])

\* C15: when an internal dependency of P has neither a Publish Record nor a
\* usable registry version, P's step fails with the unresolved-dependency
\* error and the run with it; a package.json is written to disk, and a
\* package published, only with every internal dependency resolved to a
\* usable version.
C15_UnresolvedDependencyFails ==
    /\ [](\A p \in Names :
            /\ task[p].st \in {"writing", "publishing", "done"}
                  => ResolvedToUsableVersions(p, packages[p].json)
            /\ manifests[p] # repo[p] => ResolvedToUsableVersions(p, manifests[p])
            /\ \A k \in 1..Len(registryLog) :
                  registryLog[k].name = p =>
                      ResolvedToUsableVersions(p, registryLog[k].json)
            /\ FailedToResolve(task[p]) =>
                  /\ manifests[p] = repo[p]
                  /\ p \notin PublishedNames
                  /\ pc = "exit1"
                  /\ error = "Failed to resolve workspace dependency")
    /\ [][\A p \in Names :
            (AwaitsUnusableLookup(p) /\ task'[p] # task[p])
                => (FailedToResolve(task'[p]) /\ pc' = "exit1")]_vars

\* the lookup reported 0.0.0 for a dependency without a Publish Record, and
\* the step of its dependent failed
C15_Witness ==
    \E p \in Names :
        /\ FailedToResolve(task[p])
        /\ \E k \in 1..Len(DepTypes) : \E d \in DOMAIN repo[p][DepTypes[k]] :
              /\ IsWorkspaceSpecifier(repo[p][DepTypes[k]][d])
              /\ d \notin DOMAIN publishedVersions
              /\ registry[d].latest = Version000


\* C16: every registry lookup publishBatches issues for the version of an
\* internal dependency is issued before the first batch starts, none while a
\* batch is executing, and no dependency is looked up more than once in a
\* run.
C16_LookupsOnlyBeforeFirstBatch ==
    /\ \A k \in 1..Len(lookups) : lookups[k].batch = 0
    /\ \A j, k \in 1..Len(lookups) : j # k => lookups[j].name # lookups[k].name


\* C17: on a branch that is neither main nor dev the run is a skip: it does
\* not end with the branch as an error and no step of a package fails, the
\* set of published packages is empty, no package.json is written and no
\* package is published.
C17_OtherBranchIsSkip ==
    branch \notin {"main", "dev"} =>
        /\ error # "Branch is not main or dev"
        /\ \A p \in Names : task[p].st # "failed"
        /\ published = <<>>
        /\ manifests = repo
        /\ registryLog = <<>>

----------------------------------------------------------------------------
(* calcUpdateVersion on its own *)

\* Bounds: the components X, Y, Z of a current version, and N of -dev.N.
MaxPart == 4

MaxPre == 1

CurrentVersions ==
    {<<x, y, z, n>> : x \in 0..MaxPart, y \in 0..MaxPart, z \in 0..MaxPart,
                      n \in {NoPre} \cup 0..MaxPre}
    \cup {AbsentVersion, EmptyVersion, NullVersion, BlankVersion}

BumpLevels == {"major", "minor", "patch"}

Branches == {"main", "dev", "feature"}

NoEdges == [e \in Names \X Names |-> "none"]

\* core alone is to be published, with any current version, level and branch
InitVersion ==
    \E v \in CurrentVersions : \E lvl \in BumpLevels : \E b \in Branches :
        /\ packages = [PackagesOf(NoEdges, {}) EXCEPT !["core"].version = v]
        /\ allPkgs = PkgNames
        /\ changedPkgs = <<"core">>
        /\ expandedPkgs = <<"core">>
        /\ expandedAgain = <<>>
        /\ publishPkgs = <<"core">>
        /\ orderedBatches = <<<<"core">>>>
        /\ error = ""
        /\ pc = "calc"
        /\ repo = [n \in Names |-> ManifestOf(NoEdges, n, TRUE)]
        /\ manifests = repo
        /\ registry = AllPublished
        /\ inputs = [DEFAULT_WORKFLOW_INPUTS EXCEPT !.bumpLevel = lvl]
        /\ branch = b
        /\ run = 1
        /\ PublishIdle
        /\ DetectIdle

\* const updateVersion = await PackageService.calcUpdateVersion({ ... })
CalcUpdateVersion ==
    /\ pc = "calc"
    /\ LET c == calcUpdateVersion(packages["core"].version, inputs.bumpLevel, branch)
       IN  /\ task' = [task EXCEPT !["core"] =
                          IF c.thrown THEN FailedTask("version")
                          ELSE [st |-> "writing", at |-> "", updateVersion |-> c.value]]
           /\ error' = c.error
    /\ pc' = "calculated"
    /\ UNCHANGED <<packages, allPkgs, changedPkgs, expandedPkgs, expandedAgain,
                   publishPkgs, orderedBatches>>
    /\ UNCHANGED <<envVars, npmPackages, published, publishedVersions,
                   fetchedVersions, lookups, batchIndex, output>>
    /\ UNCHANGED detectVars

NextVersion == CalcUpdateVersion

SpecVersion == InitVersion /\ [][NextVersion]_vars

----------------------------------------------------------------------------
(* Properties of calcUpdateVersion *)

GivenVersion == packages["core"].version

ResultVersion == task["core"].updateVersion

IsNoVersion(v) == v \in {AbsentVersion, EmptyVersion, NullVersion, BlankVersion}

\* X.Y.Z without a suffix
IsStable(v) == ~IsNoVersion(v) /\ v[4] = NoPre

StandardIncrement(v, level) ==
    CASE level = "patch" -> <<v[1], v[2], v[3] + 1, NoPre>>
      [] level = "minor" -> <<v[1], v[2] + 1, 0, NoPre>>
      [] level = "major" -> <<v[1] + 1, 0, 0, NoPre>>

\* C18: on main, calcUpdateVersion of X.Y.Z returns X.Y.(Z+1) for patch,
\* X.(Y+1).0 for minor and (X+1).0.0 for major, and an absent, empty or
\* "null" current version counts as 0.0.0.
C18_MainStandardIncrement ==
    (pc = "calculated" /\ branch = "main") =>
        /\ IsStable(GivenVersion) =>
              /\ task["core"].st # "failed"
              /\ ResultVersion = StandardIncrement(GivenVersion, inputs.bumpLevel)
        /\ IsNoVersion(GivenVersion) =>
              /\ task["core"].st # "failed"
              /\ ResultVersion = StandardIncrement(<<0, 0, 0, NoPre>>, inputs.bumpLevel)

\* "1.2.3" with major gives "2.0.0"
C18_Witness ==
    /\ pc = "calculated"
    /\ branch = "main"
    /\ GivenVersion = <<1, 2, 3, NoPre>>
    /\ inputs.bumpLevel = "major"
    /\ ResultVersion = <<2, 0, 0, NoPre>>

\* C19: on dev, calcUpdateVersion of an X.Y.Z without -dev.N suffix returns
\* X.Y.(Z+1)-dev.0, whatever the bump level.
C19_DevFirstPrerelease ==
    (pc = "calculated" /\ branch = "dev" /\ IsStable(GivenVersion)) =>
        /\ task["core"].st # "failed"
        /\ ResultVersion = <<GivenVersion[1], GivenVersion[2], GivenVersion[3] + 1, 0>>

\* C20: on dev, calcUpdateVersion of X.Y.Z-dev.N returns X.Y.Z-dev.(N+1).
C20_DevNextPrerelease ==
    (/\ pc = "calculated" /\ branch = "dev"
     /\ ~IsNoVersion(GivenVersion) /\ ~IsStable(GivenVersion)) =>
        /\ task["core"].st # "failed"
        /\ ResultVersion = <<GivenVersion[1], GivenVersion[2], GivenVersion[3],
                             GivenVersion[4] + 1>>

\* "1.2.4-dev.0" gives "1.2.4-dev.1"
C20_Witness ==
    /\ pc = "calculated"
    /\ branch = "dev"
    /\ GivenVersion = <<1, 2, 4, 0>>
    /\ ResultVersion = <<1, 2, 4, 1>>

----------------------------------------------------------------------------
(* Properties of loadPackage and fetchPackageInfo, checked under SpecLoad *)

\* the specifiers package n declares for package t, over its three categories
SpecifiersOf(n, t) ==
    {manifests[n][DepTypes[k]][t] :
        k \in {k \in 1..Len(DepTypes) : t \in DOMAIN manifests[n][DepTypes[k]]}}

LoadFinished == pc # "load"

LoadSucceeded == pc = "filter"

\* C21, as stated: for a name the registry does not know, fetchPackageInfo
\* returns version 0.0.0 without a tarball reference, and the load of that
\* package succeeds with current version 0.0.0.
C21_NeverPublishedLoadsAtZero ==
    \A n \in Names :
        (/\ LoadFinished
         /\ ~registry[n].exists
         /\ error \in {"", "Failed to fetch package info"}) =>
            /\ ~fetchPackageInfo(registry, n).thrown
            /\ LoadSucceeded
            /\ packages[n].version = Version000
            /\ ~packages[n].tarballUrl

\* a specifier the loader must refuse: a scheme other than the workspace
\* marker, or text that is no version, range, dist-tag or wildcard
InvalidSpecifier(s) == s.proto \notin {"", "workspace:"} \/ s.op = "word"

AccessLevelOf(n) == IF manifests[n].private THEN "restricted" ELSE "public"

NotLoadable(n) ==
    \/ manifests[n].name = ""
    \/ \E t \in Names : \E s \in SpecifiersOf(n, t) : InvalidSpecifier(s)
    \/ AccessLevelOf(n) # inputs.access

\* C28, as stated: a manifest without a name, with an invalid specifier or
\* with an access level other than the configured one makes the load fail,
\* and the run stops before any build, manifest write or publish.
C28_InvalidManifestFailsLoad ==
    (LoadFinished /\ \E n \in Names : NotLoadable(n)) =>
        /\ pc = "exit1"
        /\ npmPackages = <<>>
        /\ manifests = repo
        /\ registryLog = <<>>

\* C29: every dependency loadPackage returns is internal (type workspace)
\* if its specifier uses the workspace marker and external (type npm)
\* otherwise, none of them uses a file, link, git or http(s) protocol, and a
\* package whose only specifier for some target uses such a protocol makes
\* the load fail.
C29_ReturnedDependenciesClassified ==
    /\ LoadSucceeded =>
          \A n \in Names : \A i \in 1..Len(packages[n].dependencies) :
              LET dep == packages[n].dependencies[i]
              IN  /\ dep.version.proto = "workspace:" => dep.type = "workspace"
                  /\ dep.version.proto # "workspace:" => dep.type = "npm"
                  /\ dep.version.proto \notin {"file:", "link:", "git:", "http:", "https:"}
                  /\ dep.version \in SpecifiersOf(n, dep.name)
    /\ LoadFinished =>
          \A n, t \in Names :
              (\E proto \in {"file:", "link:", "git:", "http:", "https:"} :
                  SpecifiersOf(n, t) = {ProtocolSpecifier(proto)}) => pc = "exit1"

\* a load that returned an internal and an external dependency of one package
C29_Witness ==
    /\ LoadSucceeded
    /\ \E n \in Names : \E i, j \in 1..Len(packages[n].dependencies) :
          /\ packages[n].dependencies[i].type = "workspace"
          /\ packages[n].dependencies[j].type = "npm"
          /\ packages[n].dependencies[j].version = Keyword

----------------------------------------------------------------------------
(* The dependency graph of a run, checked under Spec *)

\* the packages p has an edge to in the graph resolveExecutionBatches builds
\* for the packages it is about to schedule
GraphEdgesOf(p) == Range(WorkspaceDeps(packages, publishPkgs, p))

\* C30, as stated: when the schedule is computed, P has the edge to Q if P
\* declares a workspace specifier for Q in any of its three dependency
\* categories and Q is in the set (whatever the other categories declare for
\* Q), and P has no edge to a Q for which it declares no workspace specifier
\* or which is outside the set.
C30_GraphEdgesFollowDeclarations ==
    pc = "schedule" =>
        \A p \in Range(publishPkgs) : \A q \in Names :
            q \in GraphEdgesOf(p) <=>
                /\ q \in Range(publishPkgs)
                /\ \E k \in 1..Len(DepTypes) : DeclaresWorkspace(p, DepTypes[k], q)

----------------------------------------------------------------------------
(* Properties of checkChanges and of step 4 of the run, checked under SpecDetect *)

\* n has no previously published version
NoPreviousVersion(n) == packages[n].version = Version000 \/ ~packages[n].tarballUrl

Candidates == Range(npmPackages)

DetectionOver == pc \in {"expand", "exit0"}

\* C22: a package without a previously published version (current version
\* 0.0.0, or no tarball reference) is reported changed as soon as
\* checkChanges is called, its check never creates a directory nor reaches
\* the pack, fetch or compare steps, and the changed set of the run holds it.
C22_FirstPublishAlwaysChanged ==
    \A n \in Candidates : NoPreviousVersion(n) =>
        /\ check[n].at \in {"idle", "done"}
        /\ check[n].outcome = ""
        /\ TmpDirsOf(n) = {}
        /\ check[n].at = "done" => check[n].result = "changed"
        /\ (pc # "detect" /\ ~inputs.forcePublish) => check[n].at = "done"
        /\ DetectionOver => Contains(changedPkgs, n)

\* a package at 0.0.0 that has a tarball and one at 1.2.3 without, or either
\* with an unchanged sibling, ended up in the changed set of a run that
\* compared the others
C22_Witness ==
    /\ pc = "expand"
    /\ ~inputs.forcePublish
    /\ AllChecked
    /\ \E n, m \in Candidates :
          /\ packages[n].version = Version000 /\ packages[n].tarballUrl
          /\ Contains(changedPkgs, n)
          /\ check[m].result = "unchanged"
          /\ ~Contains(changedPkgs, m)

\* the entries of deps for the names that are not in names
Others(deps, names) == {<<n, deps[n]>> : n \in DOMAIN deps \ names}

\* the two artifacts of p have the same files and the same package.json once
\* the version field and, in each dependency category, the entries that the
\* local manifest declares with the workspace marker are left out of both
ContentIdentical(p) ==
    LET loc == artifacts[p].local
        pub == artifacts[p].npm
        internal(t) == {n \in DOMAIN loc.json[t] : loc.json[t][n].proto = "workspace:"}
    IN  /\ loc.files = pub.files
        /\ loc.json.name = pub.json.name
        /\ loc.json.npm = pub.json.npm
        /\ loc.json.private = pub.json.private
        /\ \A k \in 1..Len(DepTypes) :
              Others(loc.json[DepTypes[k]], internal(DepTypes[k]))
                  = Others(pub.json[DepTypes[k]], internal(DepTypes[k]))

Compared(p) ==
    /\ check[p].at \in {"cleanup", "done"}
    /\ check[p].outcome \in {"exit0", "exit1", "exit124", "exit2", "sizeError"}

\* C23, as stated: a previously published package whose artifacts were
\* compared is reported unchanged when the comparison finds the two artifacts
\* identical after the removal of the version and of the internal specifiers,
\* and changed when their content differs, whether the comparison tool
\* reported differences, failed or timed out.
C23_ChangedIffContentDiffers ==
    \A p \in Candidates : Compared(p) =>
        /\ (ContentIdentical(p) /\ check[p].outcome = "exit0") =>
              check[p].result = "unchanged"
        /\ ~ContentIdentical(p) => check[p].result = "changed"

Failed(c) == c.outcome \in {"mkdtemp", "fetch", "oversize", "pack", "extract", "read"}

\* C24: a package whose check raised an error (directory creation, fetch,
\* oversized artifact, pack, extraction, unreadable manifest) is classified
\* changed and is in the changed set of the run; the run does not fail in
\* the detection phase; and the step in which the error is raised changes
\* neither the state nor the directories of the check of any other package.
C24_CheckErrorMeansChanged ==
    /\ [](\A p \in Candidates : Failed(check[p]) =>
            /\ check[p].result = "changed"
            /\ DetectionOver => Contains(changedPkgs, p))
    /\ [](pc # "exit1" /\ error = "")
    /\ [][\A p \in Names : (check'[p] # check[p] /\ Failed(check'[p])) =>
            \A q \in Names \ {p} :
                /\ check'[q] = check[q]
                /\ {dir \in tmpDirs' : dir[1] = q} = TmpDirsOf(q)]_vars

\* a run whose detection resolved with one package failed, hence changed,
\* and another one compared and unchanged
C24_Witness ==
    /\ pc = "expand"
    /\ AllChecked
    /\ \E p, q \in Candidates :
          /\ check[p].outcome = "oversize"
          /\ check[q].outcome = "exit0"
          /\ changedPkgs = SelectSeq(npmPackages, LAMBDA n : n # q)

\* C25, as stated: once the check of a package has finished, none of the
\* temporary directories created for it exists.
C25_NoTmpDirAfterCheck ==
    \A p \in Names : check[p].at = "done" => TmpDirsOf(p) = {}

\* the race of step 4 was lost by checkChanges: some callback is still running
\* when the run leaves the detection
LeavesUnfinished ==
    /\ pc = "detecting"
    /\ pc' # "detecting"
    /\ \E n \in Candidates : check[n].at # "done"

\* C26: when the detection is cut off by its timer, the changed set is the
\* list of all npm-publishable packages, whatever the callbacks have found so
\* far, and what they find later does not change it.
C26_TimeoutTakesAllCandidates ==
    /\ [][LeavesUnfinished => (changedPkgs' = npmPackages /\ pc' = "expand")]_vars
    /\ [][DetectionOver => (changedPkgs' = changedPkgs /\ pc' = pc)]_vars

\* after the timeout: one package was found unchanged, another is still
\* being checked, and both are in the changed set
C26_Witness ==
    /\ pc = "expand"
    /\ changedPkgs = npmPackages
    /\ \E n, m \in Candidates :
          /\ check[n].at = "done" /\ check[n].result = "unchanged"
          /\ check[m].at = "tarballs"

----------------------------------------------------------------------------
(* The early exits of the run, checked under SpecLive *)

\* nothing was scheduled, no package.json was written, nothing was published
NothingDone ==
    /\ orderedBatches = <<>>
    /\ manifests = repo
    /\ registryLog = <<>>
    /\ published = <<>>
    /\ lookups = <<>>

NoneEligible == \A i \in 1..Len(allPkgs) : ~packages[allPkgs[i]].hasNpmTag

\* C27: a run whose loaded packages are all without the npm tag reaches the
\* normal end; the step that finds no npm-publishable package, the step in
\* which the detection (force-publish off) yields no changed package and the
\* step that finds no npm-publishable package in the expanded set each end
\* the run normally with nothing scheduled, written or published; and no
\* step follows the end.
C27_NothingToPublishEndsDone ==
    /\ (pc = "filter" /\ NoneEligible) ~> (pc = "exit0" /\ NothingDone)
    /\ [][(\/ pc = "filter" /\ NoneEligible
           \/ pc = "detect" /\ ~inputs.forcePublish /\ changedPkgs' = <<>>
           \/ pc = "expand" /\ publishPkgs' = <<>>)
             => (pc' = "exit0" /\ NothingDone')]_vars
    /\ [][pc # "exit0"]_vars

\* the run ended normally after a detection that found nothing changed
C27_Witness ==
    /\ pc = "exit0"
    /\ npmPackages # <<>>
    /\ changedPkgs = <<>>
    /\ ~inputs.forcePublish
    /\ NothingDone

----------------------------------------------------------------------------
(* Runs of workspaces where a later dependency type hides a workspace
   specifier *)

\* every variation of the run, over the workspaces in which one package
\* declares another with workspace:* in dependencies and with a range in
\* devDependencies
InitShadowed ==
    \E v \in Variations : \E e \in {e \in Names \X Names : e[1] # e[2]} :
        InitRun(v, [s \in {<<e[1], 1, e[2]>>, <<e[1], 2, e[2]>>} |->
                       IF s[2] = 1 THEN WorkspaceStar ELSE CaretRange])

SpecShadowed == InitShadowed /\ [][Next]_vars

\* the versions the published-versions map held when the batch of p started
PublishedBefore(p) ==
    {n \in DOMAIN publishedVersions :
        \E i \in BatchOf(n) : \E j \in BatchOf(p) : i < j}

\* the specifier p's step gives dependency d when no other package of p's
\* batch has acted yet: the run's version, the pre-fetched one, the one the
\* registry had when the run loaded d
IsolatedSpecifier(p, d) ==
    IF d \in PublishedBefore(p) THEN Exact(publishedVersions[d])
    ELSE IF d \in DOMAIN fetchedVersions THEN Exact(fetchedVersions[d])
    ELSE Exact(packages[d].version)

IsolatedManifest(p, version) ==
    [repo[p] EXCEPT
        !.version = version,
        !.dependencies = [d \in DOMAIN @ |->
            IF IsWorkspaceSpecifier(@[d]) THEN IsolatedSpecifier(p, d) ELSE @[d]],
        !.devDependencies = [d \in DOMAIN @ |->
            IF IsWorkspaceSpecifier(@[d]) THEN IsolatedSpecifier(p, d) ELSE @[d]],
        !.peerDependencies = [d \in DOMAIN @ |->
            IF IsWorkspaceSpecifier(@[d]) THEN IsolatedSpecifier(p, d) ELSE @[d]]]

\* C31: while a batch executes, the published-versions map holds no package
\* of that batch, and every package.json a batch publishes is the one its
\* package's step produces when it runs before every other step of the
\* batch, so that the completion order inside the batch makes no difference.
C31_BatchOutcomeOrderIndependent ==
    /\ pc = "awaitBatch" =>
          DOMAIN publishedVersions \cap Range(CurrentBatch) = {}
    /\ \A k \in 1..Len(registryLog) :
          registryLog[k].json =
              IsolatedManifest(registryLog[k].name, registryLog[k].version)

----------------------------------------------------------------------------
(* The process as a whole: index.ts, main *)

\* at most one dependency entry; two packages that declare each other; a
\* dependency whose specifier is no semver range
MainDeclarations ==
    DeclarationsUpTo(1)
    \cup {[s \in {<<e[1], 1, e[2]>>, <<e[2], 1, e[1]>>} |-> WorkspaceStar] :
            e \in {e \in Names \X Names : e[1] # e[2]}}
    \cup {[s \in {<<e[1], 1, e[2]>>} |-> Word] :
            e \in {e \in Names \X Names : e[1] # e[2]}}

\* The processes of every route, over workspaces with at most one dependency
\* entry, with a dependency cycle or with an invalid specifier.
InitMain ==
    \E r \in Routes : \E v \in Variations : \E decl \in MainDeclarations :
        InitRoute(r, v, decl)

SpecMain == InitMain /\ [][NextMain]_vars

\* an error was thrown and no catch below main's handled it
UnrecoveredFailure ==
    \/ error # ""
    \/ \E p \in Names : task[p].st = "failed"

\* C32: the process ends with status 0 only if nothing was thrown up to
\* main, a failure that reaches main ends it with status 1 in the step it
\* occurs in, status 1 is never given without such a failure, and a route
\* outside the three known ones never gets beyond the dispatch.
C32_ExitCodeFollowsOutcome ==
    /\ pc = "exit0" => ~UnrecoveredFailure
    /\ UnrecoveredFailure => pc = "exit1"
    /\ pc = "exit1" => error # ""
    /\ inputs.route \notin PackageRoutes \cup {"turborepo-workspace"} =>
          /\ pc \in {"load", "exit1"}
          /\ registryLog = <<>>

\* a publish fails after another package of the workspace was published
C32_Witness ==
    /\ pc = "exit1"
    /\ registryLog # <<>>
    /\ \E p \in Names : task[p].st = "failed" /\ task[p].at = "publish"

----------------------------------------------------------------------------
(* The order of a package's steps inside its batch *)

\* the package.json of p in memory carries the computed version
VersionComputed(p) ==
    /\ packages[p].json.version = task[p].updateVersion
    /\ LET c == calcUpdateVersion(packages[p].version, inputs.bumpLevel, branch)
       IN  ~c.thrown /\ task[p].updateVersion = c.value

\* every workspace specifier of p's package.json in memory has been replaced
RewriteComplete(p) == NeedOf(packages[p].json) = <<>>

\* the package.json of p on disk is the rewritten one
ManifestWritten(p) == manifests[p] = packages[p].json

\* C33: a package whose step is under way has its new version computed; it
\* awaits the write only with its specifiers rewritten and nothing written
\* or published yet; it awaits the publish, or is published, only with the
\* rewritten package.json on disk; and whatever was published for it was
\* published once, under the run's tag (dev on the dev branch, latest
\* otherwise), with the computed version and the package.json on disk.
C33_StepsInOrder ==
    /\ \A p \in Names :
          \/ /\ task[p].st = "idle"
             /\ manifests[p] = repo[p]
             /\ p \notin PublishedNames
          \/ /\ task[p].st = "fetching"
             /\ manifests[p] = repo[p]
             /\ p \notin PublishedNames
             /\ VersionComputed(p)
          \/ /\ task[p].st = "writing"
             /\ manifests[p] = repo[p]
             /\ p \notin PublishedNames
             /\ VersionComputed(p)
             /\ RewriteComplete(p)
          \/ /\ task[p].st = "publishing"
             /\ ManifestWritten(p)
             /\ p \notin PublishedNames
             /\ VersionComputed(p)
             /\ RewriteComplete(p)
          \/ /\ task[p].st = "done"
             /\ ManifestWritten(p)
             /\ VersionComputed(p)
             /\ RewriteComplete(p)
          \/ /\ task[p].st = "failed"
             /\ task[p].at = "publish" \/ manifests[p] = repo[p]
             /\ p \notin PublishedNames
    /\ \A k \in 1..Len(registryLog) :
          /\ registryLog[k].tag = (IF branch = "dev" THEN "dev" ELSE "latest")
          /\ registryLog[k].version = task[registryLog[k].name].updateVersion
          /\ registryLog[k].json = manifests[registryLog[k].name]
          /\ \A j \in 1..Len(registryLog) :
                registryLog[j].name = registryLog[k].name => j = k

\* on the dev branch a package with a rewritten dependency has been published
C33_Witness ==
    /\ branch = "dev"
    /\ \E k \in 1..Len(registryLog) :
          /\ task[registryLog[k].name].st = "done"
          /\ registryLog[k].json # [repo[registryLog[k].name] EXCEPT
                                      !.version = registryLog[k].version]

----------------------------------------------------------------------------
(* The plan of resolveExecutionBatches, level by level *)

MaxOf(S) == CHOOSE x \in S : \A y \in S : y <= x

\* the length of the longest chain of internal dependencies that starts at n
\* and stays inside S, for chains of at most k edges
RECURSIVE LongestChainBelow(_, _, _)
LongestChainBelow(S, n, k) ==
    LET deps == {m \in S : DeclaresInternal(n, m)}
    IN  IF k = 0 \/ deps = {} THEN 0
        ELSE 1 + MaxOf({LongestChainBelow(S, m, k - 1) : m \in deps})

DepthOf(n) == LongestChainBelow(ScheduleInput, n, Cardinality(ScheduleInput))

PlacedBefore(i) == UNION {Range(orderedBatches[j]) : j \in 1..(i - 1)}

LongestChain ==
    IF ScheduleInput = {} THEN 0 ELSE MaxOf({DepthOf(n) : n \in ScheduleInput})

----------------------------------------------------------------------------
(* The callbacks of checkChanges after the run has left Step 4 *)

\* the callback of p is between its first await and its return: it packs,
\* moves, extracts, compares or deletes
CheckRunning(p) == check[p].at \in {"mkdtemp", "tarballs", "cleanup"}

\* C35: once the run has gone on from change detection, by the result, by the
\* timeout or by a failure of the step, no callback of checkChanges is still
\* running, so none of its work in a package directory can coincide with the
\* write of that package's package.json or with its publish.
C35_NoCheckRunsAfterDetection ==
    DetectionOver => \A p \in Candidates : ~CheckRunning(p)

----------------------------------------------------------------------------
(* The queue of expandDependents *)

\* The while loop of expandDependents, run for at most fuel iterations: has
\* the queue run empty, and which packages were put on the queue, in order.
RECURSIVE QueueTrace(_, _, _, _, _, _)
QueueTrace(store, all, expanded, queue, enqueued, fuel) ==
    IF queue = <<>> THEN [finished |-> TRUE, enqueued |-> enqueued]
    ELSE IF fuel = 0 THEN [finished |-> FALSE, enqueued |-> enqueued]
    ELSE LET r == AddDependents(DependedBy(store, all, Head(queue)), expanded,
                                Tail(queue))
         IN  QueueTrace(store, all, r.expanded, r.queue,
                        enqueued \o SubSeq(r.queue, Len(queue), Len(r.queue)),
                        fuel - 1)

ExpandTrace ==
    QueueTrace(packages, allPkgs, SetOf(changedPkgs, <<>>), changedPkgs,
               changedPkgs, Len(allPkgs))

\* C36: on every package set, with cycles and self-dependencies or without,
\* the loop of expandDependents ends after at most as many iterations as
\* there are packages, and no package is put on its queue twice.
C36_ExpandTerminatesEnqueueOnce ==
    pc = "expanded" =>
        /\ ExpandTrace.finished
        /\ NoDuplicates(ExpandTrace.enqueued)
        /\ Range(ExpandTrace.enqueued) = Range(expandedPkgs)

\* the one changed package depends on itself and is on a cycle of two
C36_Witness ==
    /\ pc = "expanded"
    /\ Len(changedPkgs) = 1
    /\ DeclaresInternal(changedPkgs[1], changedPkgs[1])
    /\ \E q \in Names \ {changedPkgs[1]} :
          /\ DeclaresInternal(changedPkgs[1], q)
          /\ DeclaresInternal(q, changedPkgs[1])
    /\ Len(expandedPkgs) = 2

----------------------------------------------------------------------------
(* The set of packages to publish, against the declared dependencies *)

\* the checked-out package.json of p declares d with a workspace specifier
DeclaresInternalDependency(p, d) ==
    \E k \in 1..Len(DepTypes) : DeclaresWorkspace(p, DepTypes[k], d)

\* p depends on d along at most k declared internal dependencies
RECURSIVE DependsWithin(_, _, _)
DependsWithin(p, d, k) ==
    IF k = 0 THEN FALSE
    ELSE \E m \in Names :
            /\ DeclaresInternalDependency(p, m)
            /\ (m = d \/ DependsWithin(m, d, k - 1))

DependsOnChanged(p) ==
    \E c \in Range(changedPkgs) : DependsWithin(p, c, Cardinality(Names))

ReachedSchedule ==
    pc \in {"schedule", "publish", "batch", "awaitBatch"}
        \/ (pc \in {"exit0", "exit1"} /\ publishPkgs # <<>>)

\* C37: once a workspace run has reached the schedule step, every
\* npm-publishable package that depends, directly or through a chain of
\* declared internal dependencies over the loaded packages, on a changed
\* package is in the set to publish, and a run that ends with status 0 has
\* published each of them.
C37_PublishSetClosedUnderDependents ==
    ReachedSchedule =>
        \A p \in Range(npmPackages) :
            DependsOnChanged(p) =>
                /\ Contains(publishPkgs, p)
                /\ pc = "exit0" => p \in PublishedNames

----------------------------------------------------------------------------
(* What a workspace run does with packages that are not npm-publishable *)

\* the runs of workspaces with at most one dependency entry, and the
\* force-publish runs of those where some packages are not npm-publishable
InitEligible ==
    \E v \in Variations \cup
               {[PlainRun EXCEPT !.notNpm = S, !.forcePublish = TRUE] :
                   S \in SUBSET Names \ {{}, Names}} :
        \E decl \in DeclarationsUpTo(1) : InitRun(v, decl)

SpecEligible == InitEligible /\ [][Next]_vars

\* the package.json of p carries "npm": true
PublishEligible(p) == repo[p].npm

\* the packages Step 3 has built, or tried to build
BuiltPackages ==
    IF pc \in {"load", "filter"} THEN {} ELSE BuildSelection(npmPackages)

\* p was neither checked for changes, nor put in the set to publish or in a
\* batch, nor rewritten, nor published
NotHandled(p) ==
    /\ ~Contains(npmPackages, p)
    /\ ~Contains(changedPkgs, p)
    /\ ~Contains(publishPkgs, p)
    /\ BatchOf(p) = {}
    /\ task[p].st = "idle"
    /\ check[p].at = "idle"
    /\ manifests[p] = repo[p]
    /\ p \notin PublishedNames

\* C38: in a workspace run the build is requested for npm-publishable
\* packages only, and builds nothing but them and the workspace packages
\* they depend on; a package that is not npm-publishable is never checked
\* for changes, scheduled, rewritten or published, whether it is reached by
\* the expansion of dependents or force-publish is on.
C38_OnlyEligibleHandled ==
    /\ \A p \in Names : ~PublishEligible(p) => NotHandled(p)
    /\ \A p \in BuiltPackages :
          \E q \in Range(npmPackages) :
              /\ PublishEligible(q)
              /\ p \in BuildSelection(<<q>>)

\* C38 as stated: every package that is built is npm-publishable as well.
C38_AsStated ==
    /\ C38_OnlyEligibleHandled
    /\ \A p \in BuiltPackages : PublishEligible(p)

\* a force-publish run that has published ends with a package that is not
\* npm-publishable among the dependents the expansion reached
C38_Witness ==
    /\ pc = "exit0"
    /\ registryLog # <<>>
    /\ inputs.forcePublish
    /\ \E p \in Range(expandedPkgs) : ~PublishEligible(p)

----------------------------------------------------------------------------
(* Consecutive runs of the workflow on one branch *)

\* Bound: the runs of the workflow that follow one another.
MaxRuns == 2

\* The workflow is started again on the same branch: a fresh process on a
\* fresh checkout, the registry as the earlier runs left it.
StartNextRun ==
    /\ pc \in {"exit0", "exit1"}
    /\ run < MaxRuns
    /\ run' = run + 1
    /\ manifests' = repo
    /\ packages' = <<>>
    /\ allPkgs' = <<>>
    /\ changedPkgs' = <<>>
    /\ expandedPkgs' = <<>>
    /\ expandedAgain' = <<>>
    /\ publishPkgs' = <<>>
    /\ orderedBatches' = <<>>
    /\ error' = ""
    /\ pc' = "load"
    /\ npmPackages' = <<>>
    /\ published' = <<>>
    /\ publishedVersions' = NoVersions
    /\ fetchedVersions' = NoVersions
    /\ lookups' = <<>>
    /\ batchIndex' = 1
    /\ task' = [n \in Names |-> IdleTask]
    /\ output' = <<>>
    /\ UNCHANGED <<repo, registry, registryLog, inputs, branch, detectVars>>

NextRerun ==
    \/ StartNextRun
    \/ Next

\* the plain run, the run on the dev branch, the runs with a rejected
\* pre-fetch, each over a workspace with at most one dependency entry
InitRerun ==
    \E v \in {PlainRun, [PlainRun EXCEPT !.branch = "dev"]}
               \cup {[PlainRun EXCEPT !.flaky = {n}] : n \in Names} :
        \E decl \in DeclarationsUpTo(1) : InitRun(v, decl)

SpecRerun == InitRerun /\ [][NextRerun]_vars

\* the version the run before this one published for p
PreviousVersions(p) ==
    {registryLog[k].version : k \in {k \in 1..Len(registryLog) :
        registryLog[k].name = p /\ registryLog[k].run = run - 1}}

Loaded(p) == pc # "load" /\ p \in DOMAIN packages

VersionChosen(p) == task[p].st \in {"fetching", "writing", "publishing", "done"}

\* C39: in a run on the dev branch that follows a run which published p,
\* the current version p is loaded with is the version that run published,
\* and the version computed for p is the dev successor of that version and
\* differs from it.
C39_NextRunContinuesFromPrevious ==
    \A p \in Names : \A v \in PreviousVersions(p) :
        (branch = "dev" /\ Loaded(p)) =>
            /\ packages[p].version = v
            /\ VersionChosen(p) =>
                  /\ task[p].updateVersion # v
                  /\ task[p].updateVersion =
                        calcUpdateVersion(v, inputs.bumpLevel, branch).value

----------------------------------------------------------------------------
(* The package.json the publish operation packs *)

\* no specifier of dependencies, devDependencies or peerDependencies carries
\* the workspace marker
NoWorkspaceMarker(json) ==
    \A k \in 1..Len(DepTypes) : \A d \in DOMAIN json[DepTypes[k]] :
        ~IsWorkspaceSpecifier(json[DepTypes[k]][d])

\* every specifier that the checked-out package.json of p declares with the
\* workspace marker is a plain version other than 0.0.0 in json, the other
\* specifiers are as checked out
InternalSpecifiersReplaced(p, json) ==
    \A k \in 1..Len(DepTypes) :
        /\ DOMAIN json[DepTypes[k]] = DOMAIN repo[p][DepTypes[k]]
        /\ \A d \in DOMAIN json[DepTypes[k]] :
              IF DeclaresWorkspace(p, DepTypes[k], d)
              THEN /\ json[DepTypes[k]][d] = Exact(json[DepTypes[k]][d].ver)
                   /\ json[DepTypes[k]][d].ver # Version000
              ELSE json[DepTypes[k]][d] = repo[p][DepTypes[k]][d]

PublishInvoked(p) ==
    \/ task[p].st \in {"publishing", "done"}
    \/ task[p].st = "failed" /\ task[p].at = "publish"

\* C40: whenever the publish operation has been invoked for a package, the
\* package.json on disk has no workspace marker left in dependencies,
\* devDependencies and peerDependencies, each internal specifier being
\* replaced by a concrete version; the same holds of every package.json the
\* registry received; and a package whose step failed earlier has its
\* package.json as checked out.
C40_NoWorkspaceMarkerAtPublish ==
    /\ \A p \in Names :
          /\ PublishInvoked(p) =>
                /\ NoWorkspaceMarker(manifests[p])
                /\ InternalSpecifiersReplaced(p, manifests[p])
          /\ (task[p].st = "failed" /\ task[p].at # "publish") =>
                manifests[p] = repo[p]
    /\ \A k \in 1..Len(registryLog) :
          /\ NoWorkspaceMarker(registryLog[k].json)
          /\ InternalSpecifiersReplaced(registryLog[k].name, registryLog[k].json)

\* a package is published whose package.json declared internal dependencies
\* in dependencies and in peerDependencies
C40_Witness ==
    \E k \in 1..Len(registryLog) : \E d, e \in Names :
        /\ DeclaresWorkspace(registryLog[k].name, "dependencies", d)
        /\ DeclaresWorkspace(registryLog[k].name, "peerDependencies", e)

====
